---- MODULE Spec2Model ----
(***************************************************************************)
(* The CLI streaming pipeline of keepercore (core/cli/command.py): the     *)
(* built-in sources, commands and the list sink, the aiostream operators   *)
(* they are built from, and the run of one pipeline                        *)
(* Parsed -> Resolved -> Running -> Completed | Failed. Further down, each  *)
(* with a specification of its own: a resolved stage applied to two        *)
(* streams, the Parser of pipeline texts, the JWT check of the web         *)
(* server, ConfigOverrideService and TimeSeriesDB.compact_time_series.     *)
(*                                                                         *)
(* A text (Python str) is a tuple of one-character strings, so that the    *)
(* code's character-level operations (json.loads, int, substring test,     *)
(* iteration over a str) are computed and not assumed.                     *)
(***************************************************************************)
EXTENDS Integers, Sequences, FiniteSets, TLC

(***************************************************************************)
(* Texts                                                                   *)
(***************************************************************************)
Digit == {"0", "1", "2", "3", "4", "5", "6", "7", "8", "9"}

DigitVal(c) ==
  CASE c = "0" -> 0 [] c = "1" -> 1 [] c = "2" -> 2 [] c = "3" -> 3
    [] c = "4" -> 4 [] c = "5" -> 5 [] c = "6" -> 6 [] c = "7" -> 7
    [] c = "8" -> 8 [] c = "9" -> 9

DigitChar(d) ==
  CASE d = 0 -> "0" [] d = 1 -> "1" [] d = 2 -> "2" [] d = 3 -> "3"
    [] d = 4 -> "4" [] d = 5 -> "5" [] d = 6 -> "6" [] d = 7 -> "7"
    [] d = 8 -> "8" [] d = 9 -> "9"

\* str(k) for an integer k
RECURSIVE NatText(_)
NatText(k) == IF k < 10 THEN <<DigitChar(k)>> ELSE NatText(k \div 10) \o <<DigitChar(k % 10)>>

IntText(k) == IF k < 0 THEN <<"-">> \o NatText(0 - k) ELSE NatText(k)

\* s[i..j] (1-based, inclusive), the empty text when j < i
Slice(s, i, j) == IF j < i THEN <<>> ELSE SubSeq(s, i, j)

\* Python's `sub in s` for two str
IsSubstring(sub, s) ==
  \E i \in 1..(Len(s) - Len(sub) + 1) : Slice(s, i, i + Len(sub) - 1) = sub

\* str.strip() restricted to the blank
RECURSIVE LStrip(_)
LStrip(s) == IF s # <<>> /\ Head(s) = " " THEN LStrip(Tail(s)) ELSE s

RECURSIVE RStrip(_)
RStrip(s) == IF s # <<>> /\ s[Len(s)] = " " THEN RStrip(Slice(s, 1, Len(s) - 1)) ELSE s

Strip(s) == RStrip(LStrip(s))

\* str.split(sep) for a one-character separator
RECURSIVE SplitAcc(_, _, _, _)
SplitAcc(s, sep, cur, acc) ==
  IF s = <<>> THEN Append(acc, cur)
  ELSE IF Head(s) = sep THEN SplitAcc(Tail(s), sep, <<>>, Append(acc, cur))
  ELSE SplitAcc(Tail(s), sep, Append(cur, Head(s)), acc)

Split(s, sep) == SplitAcc(s, sep, <<>>, <<>>)

T_id == <<"_", "i", "d">>
T_graph == <<"g", "r", "a", "p", "h">>
T_section == <<"s", "e", "c", "t", "i", "o", "n">>
T_result_section == <<"r", "e", "s", "u", "l", "t", "_", "s", "e", "c", "t", "i", "o", "n">>
T_reported == <<"r", "e", "p", "o", "r", "t", "e", "d">>
T_desired == <<"d", "e", "s", "i", "r", "e", "d">>
T_delete == <<"d", "e", "l", "e", "t", "e">>
T_matched == <<"m", "a", "t", "c", "h", "e", "d">>
T_not_matched == <<"n", "o", "t", "_", "m", "a", "t", "c", "h", "e", "d">>
T_null == <<"n", "u", "l", "l">>
T_true == <<"t", "r", "u", "e">>
T_false == <<"f", "a", "l", "s", "e">>

(***************************************************************************)
(* Values (core.types.JsonElement): one record shape for every variant.    *)
(* n: the number or the bool (0/1); s: the text of a str; l: the members   *)
(* of a list; m: the items of a dict in insertion order, [k, v] each.      *)
(***************************************************************************)
NullV == [t |-> "null", n |-> 0, s |-> <<>>, l |-> <<>>, m |-> <<>>]
BoolV(b) == [t |-> "bool", n |-> IF b THEN 1 ELSE 0, s |-> <<>>, l |-> <<>>, m |-> <<>>]
NumV(i) == [t |-> "num", n |-> i, s |-> <<>>, l |-> <<>>, m |-> <<>>]
StrV(x) == [t |-> "str", n |-> 0, s |-> x, l |-> <<>>, m |-> <<>>]
ListV(x) == [t |-> "list", n |-> 0, s |-> <<>>, l |-> x, m |-> <<>>]
MapV(x) == [t |-> "map", n |-> 0, s |-> <<>>, l |-> <<>>, m |-> x]

Item(k, v) == [k |-> k, v |-> v]

\* dict: key lookup, and d[k] = v (an existing key keeps its place)
MapHas(items, k) == \E i \in 1..Len(items) : items[i].k = k

MapGet(items, k) == items[CHOOSE i \in 1..Len(items) : items[i].k = k].v

MapSet(items, k, v) ==
  IF MapHas(items, k)
  THEN [i \in 1..Len(items) |-> IF items[i].k = k THEN Item(k, v) ELSE items[i]]
  ELSE Append(items, Item(k, v))

(***************************************************************************)
(* json.loads, on texts without backslash, control characters, fractions   *)
(* and exponents: null, true, false, integers, strings, arrays, objects.   *)
(* A result is [ok, v, i]: whether a value was read, the value, and the    *)
(* index after it.                                                         *)
(***************************************************************************)
JFail == [ok |-> FALSE, v |-> NullV, i |-> 0]

JOk(v, i) == [ok |-> TRUE, v |-> v, i |-> i]

RECURSIVE SkipWs(_, _)
SkipWs(s, i) == IF i <= Len(s) /\ s[i] = " " THEN SkipWs(s, i + 1) ELSE i

\* the index of the quote closing a string that starts at i, 0 if there is none
JStrEnd(s, i) ==
  LET q == {j \in i..Len(s) : s[j] = "\""} IN
  IF q = {} THEN 0 ELSE CHOOSE j \in q : \A k \in q : j <= k

RECURSIVE JDigits(_, _, _)
JDigits(s, i, acc) ==
  IF i <= Len(s) /\ s[i] \in Digit
  THEN JDigits(s, i + 1, acc * 10 + DigitVal(s[i]))
  ELSE [v |-> acc, i |-> i]

\* the integer part of a JSON number: 0, or a non-zero digit and digits
JNat(s, i) ==
  IF i > Len(s) \/ s[i] \notin Digit THEN JFail
  ELSE IF s[i] = "0" THEN JOk(NumV(0), i + 1)
  ELSE LET d == JDigits(s, i, 0) IN JOk(NumV(d.v), d.i)

JNumber(s, i) ==
  IF s[i] = "-"
  THEN LET r == JNat(s, i + 1) IN IF r.ok THEN JOk(NumV(0 - r.v.n), r.i) ELSE JFail
  ELSE JNat(s, i)

RECURSIVE JValue(_, _)
RECURSIVE JArrayItems(_, _, _)
RECURSIVE JObjectItems(_, _, _)

JArrayItems(s, i, acc) ==
  LET r == JValue(s, i) IN
  IF ~r.ok THEN JFail
  ELSE LET j == SkipWs(s, r.i) IN
       IF j > Len(s) THEN JFail
       ELSE IF s[j] = "]" THEN JOk(ListV(Append(acc, r.v)), j + 1)
       ELSE IF s[j] = "," THEN JArrayItems(s, SkipWs(s, j + 1), Append(acc, r.v))
       ELSE JFail

JObjectItems(s, i, acc) ==
  IF i > Len(s) \/ s[i] # "\"" THEN JFail
  ELSE LET e == JStrEnd(s, i + 1) IN
       IF e = 0 THEN JFail
       ELSE LET key == Slice(s, i + 1, e - 1)
                c == SkipWs(s, e + 1)
            IN IF c > Len(s) \/ s[c] # ":" THEN JFail
               ELSE LET r == JValue(s, SkipWs(s, c + 1)) IN
                    IF ~r.ok THEN JFail
                    ELSE LET j == SkipWs(s, r.i) IN
                         IF j > Len(s) THEN JFail
                         ELSE IF s[j] = "}" THEN JOk(MapV(MapSet(acc, key, r.v)), j + 1)
                         ELSE IF s[j] = ","
                              THEN JObjectItems(s, SkipWs(s, j + 1), MapSet(acc, key, r.v))
                         ELSE JFail

JValue(s, i) ==
  IF i > Len(s) THEN JFail
  ELSE IF s[i] = "\""
       THEN LET e == JStrEnd(s, i + 1) IN
            IF e = 0 THEN JFail ELSE JOk(StrV(Slice(s, i + 1, e - 1)), e + 1)
  ELSE IF s[i] = "["
       THEN LET j == SkipWs(s, i + 1) IN
            IF j <= Len(s) /\ s[j] = "]" THEN JOk(ListV(<<>>), j + 1)
            ELSE JArrayItems(s, j, <<>>)
  ELSE IF s[i] = "{"
       THEN LET j == SkipWs(s, i + 1) IN
            IF j <= Len(s) /\ s[j] = "}" THEN JOk(MapV(<<>>), j + 1)
            ELSE JObjectItems(s, j, <<>>)
  ELSE IF i + 3 <= Len(s) /\ Slice(s, i, i + 3) = T_null THEN JOk(NullV, i + 4)
  ELSE IF i + 3 <= Len(s) /\ Slice(s, i, i + 3) = T_true THEN JOk(BoolV(TRUE), i + 4)
  ELSE IF i + 4 <= Len(s) /\ Slice(s, i, i + 4) = T_false THEN JOk(BoolV(FALSE), i + 5)
  ELSE IF s[i] = "-" \/ s[i] \in Digit THEN JNumber(s, i)
  ELSE JFail

\* json.loads(s): [ok, v]; not ok stands for json.JSONDecodeError
JsonLoads(s) ==
  LET r == JValue(s, SkipWs(s, 1)) IN
  IF r.ok /\ SkipWs(s, r.i) > Len(s) THEN [ok |-> TRUE, v |-> r.v]
  ELSE [ok |-> FALSE, v |-> NullV]

\* int(s) for a str: blanks stripped, an optional sign, then digits only;
\* not ok stands for ValueError
PyInt(s) ==
  LET x == Strip(s)
      neg == x # <<>> /\ Head(x) = "-"
      body == IF x # <<>> /\ Head(x) \in {"-", "+"} THEN Tail(x) ELSE x
  IN IF body # <<>> /\ \A i \in 1..Len(body) : body[i] \in Digit
     THEN [ok |-> TRUE, v |-> IF neg THEN 0 - JDigits(body, 1, 0).v ELSE JDigits(body, 1, 0).v]
     ELSE [ok |-> FALSE, v |-> 0]

(***************************************************************************)
(* json.dumps: the separators ", " and ": "; with sort_keys the keys of     *)
(* every dict in ascending order of their characters' code points.         *)
(***************************************************************************)
\* the characters of the model's texts in code point order
Alphabet ==
  <<" ", "\"", "+", ",", "-", "0", "1", "2", "3", "4", "5", "6", "7", "8", "9",
    ":", "=", "[", "]", "_", "a", "b", "c", "d", "e", "f", "g", "h", "i", "j",
    "k", "l", "m", "n", "o", "p", "q", "r", "s", "t", "u", "v", "w", "x", "y",
    "z", "{", "|", "}">>

CharRank(c) == CHOOSE i \in 1..Len(Alphabet) : Alphabet[i] = c

\* a < b for two str
RECURSIVE TextLess(_, _)
TextLess(a, b) ==
  IF b = <<>> THEN FALSE
  ELSE IF a = <<>> THEN TRUE
  ELSE IF Head(a) = Head(b) THEN TextLess(Tail(a), Tail(b))
  ELSE CharRank(Head(a)) < CharRank(Head(b))

\* the items of a dict, sorted by key
RECURSIVE SortItems(_)
SortItems(items) ==
  IF items = <<>> THEN <<>>
  ELSE LET i == CHOOSE i \in 1..Len(items) :
                  \A j \in 1..Len(items) : ~TextLess(items[j].k, items[i].k)
           rest == [j \in 1..(Len(items) - 1) |-> IF j < i THEN items[j] ELSE items[j + 1]]
       IN <<items[i]>> \o SortItems(rest)

RECURSIVE Dumps(_, _)
RECURSIVE DumpList(_, _)
RECURSIVE DumpItems(_, _)

DumpList(l, sort_keys) ==
  IF l = <<>> THEN <<>>
  ELSE IF Len(l) = 1 THEN Dumps(l[1], sort_keys)
  ELSE Dumps(l[1], sort_keys) \o <<",", " ">> \o DumpList(Tail(l), sort_keys)

DumpItems(items, sort_keys) ==
  IF items = <<>> THEN <<>>
  ELSE LET one == <<"\"">> \o items[1].k \o <<"\"", ":", " ">> \o Dumps(items[1].v, sort_keys) IN
       IF Len(items) = 1 THEN one
       ELSE one \o <<",", " ">> \o DumpItems(Tail(items), sort_keys)

\* json.dumps(v, sort_keys=sort_keys)
Dumps(v, sort_keys) ==
  CASE v.t = "null" -> T_null
    [] v.t = "bool" -> IF v.n = 1 THEN T_true ELSE T_false
    [] v.t = "num" -> IntText(v.n)
    [] v.t = "str" -> <<"\"">> \o v.s \o <<"\"">>
    [] v.t = "list" -> <<"[">> \o DumpList(v.l, sort_keys) \o <<"]">>
    [] v.t = "map" -> <<"{">> \o DumpItems(IF sort_keys THEN SortItems(v.m) ELSE v.m, sort_keys)
                             \o <<"}">>

JsonDumps(v) == Dumps(v, TRUE)

(***************************************************************************)
(* Python operations on values.  A result [ok, ...] with ok = FALSE stands *)
(* for the exception the operation raises.                                 *)
(***************************************************************************)
\* isinstance(v, Iterable): str, list and dict are iterable
IsIterable(v) == v.t \in {"str", "list", "map"}

\* what iterating v yields: the members of a list, the one-character strings
\* of a str, the keys of a dict
IterItems(v) ==
  CASE v.t = "list" -> v.l
    [] v.t = "str" -> [i \in 1..Len(v.s) |-> StrV(<<v.s[i]>>)]
    [] v.t = "map" -> [i \in 1..Len(v.m) |-> StrV(v.m[i].k)]
    [] OTHER -> <<>>

\* `key in v` for a str key: a key of a dict, a substring of a str, a member
\* of a list; TypeError (ok = FALSE) for null, bool and numbers
PyIn(key, v) ==
  CASE v.t = "map" -> [ok |-> TRUE, v |-> MapHas(v.m, key)]
    [] v.t = "str" -> [ok |-> TRUE, v |-> IsSubstring(key, v.s)]
    [] v.t = "list" -> [ok |-> TRUE, v |-> \E i \in 1..Len(v.l) : v.l[i] = StrV(key)]
    [] OTHER -> [ok |-> FALSE, v |-> FALSE]

\* v[key] for a str key: the value of a dict; KeyError or TypeError otherwise
PyGetItem(v, key) ==
  IF v.t = "map" /\ MapHas(v.m, key) THEN [ok |-> TRUE, v |-> MapGet(v.m, key)]
  ELSE [ok |-> FALSE, v |-> NullV]

\* int(v): a number, a bool, or a str that reads as an integer
PyIntOf(v) ==
  CASE v.t \in {"num", "bool"} -> [ok |-> TRUE, v |-> v.n]
    [] v.t = "str" -> PyInt(v.s)
    [] OTHER -> [ok |-> FALSE, v |-> 0]

(***************************************************************************)
(* The collaborators of command.py that the pipeline calls into.           *)
(***************************************************************************)
\* core.cli.cli.key_values_parser: blank-separated key=value assignments; a
\* value that reads as a JSON primitive is that primitive, any other value
\* is the text itself
KeyValueToken(tok) ==
  LET kv == Split(tok, "=")
      raw == Slice(tok, Len(kv[1]) + 2, Len(tok))
      js == JsonLoads(raw)
  IN IF Len(kv) < 2 \/ kv[1] = <<>> \/ raw = <<>> THEN [ok |-> FALSE, k |-> <<>>, v |-> NullV]
     ELSE [ok |-> TRUE, k |-> kv[1],
           v |-> IF js.ok /\ js.v.t \in {"null", "bool", "num", "str"} THEN js.v ELSE StrV(raw)]

RECURSIVE KeyValuesAcc(_, _)
KeyValuesAcc(toks, acc) ==
  IF toks = <<>> THEN [ok |-> TRUE, v |-> acc]
  ELSE IF Head(toks) = <<>> THEN KeyValuesAcc(Tail(toks), acc)
  ELSE LET t == KeyValueToken(Head(toks)) IN
       IF t.ok THEN KeyValuesAcc(Tail(toks), MapSet(acc, t.k, t.v))
       ELSE [ok |-> FALSE, v |-> <<>>]

key_values_parser(arg) == KeyValuesAcc(Split(Strip(arg), " "), <<>>)

\* core.query.query_parser.parse_query: the query grammar is external; of a
\* query text the pipeline needs only whether it parses
parse_query(arg) == [ok |-> \A i \in 1..Len(arg) : arg[i] \notin {"|", "="}]

\* the graph store holds its nodes in a sequence (the store's own order):
\* [id, reported, desired], id a text, reported a value, desired the items
\* of the desired section
\* a merge that replaces the section by the patch
MergeItems_replace(items, patch) == patch

\* a merge that appends the patch to the section, whatever the section holds
MergeItems_append(items, patch) == items \o patch

RECURSIVE MergeItems(_, _)
MergeItems(items, patch) ==
  IF patch = <<>> THEN items
  ELSE MergeItems(MapSet(items, patch[1].k, patch[1].v), Tail(patch))

NodeSection(node, sec) ==
  IF sec = T_reported THEN <<Item(T_reported, node.reported)>>
  ELSE IF sec = T_desired THEN <<Item(T_desired, MapV(node.desired))>>
  ELSE <<>>

RECURSIVE NodeSections(_, _)
NodeSections(node, secs) ==
  IF secs = <<>> THEN <<>> ELSE NodeSection(node, Head(secs)) \o NodeSections(node, Tail(secs))

\* the Mapping the store hands out for a node
NodeDoc(node, secs) == MapV(<<Item(T_id, StrV(node.id))>> \o NodeSections(node, secs))

\* a store that patches the nodes of a call one after the other and was
\* stopped after the first
update_nodes_desired_first(g, patch, node_ids, secs) ==
  LET named == {node_ids[j] : j \in 1..Len(node_ids)}
      Named(node) == StrV(node.id) \in named
      First(i) == Named(g[i]) /\ \A j \in 1..(i - 1) : ~Named(g[j])
      g2 == [i \in 1..Len(g) |->
               IF First(i) THEN [g[i] EXCEPT !.desired = MergeItems(@, patch)] ELSE g[i]]
      hit == SelectSeq(g2, Named)
  IN [graph |-> g2, results |-> [i \in 1..Len(hit) |-> NodeDoc(hit[i], secs)]]

\* db.update_nodes_desired(patch, node_ids, result_section): patch merged
\* into the desired section of every node named in node_ids, all in one
\* store operation; one result per updated node, in the store's order
update_nodes_desired(g, patch, node_ids, secs) ==
  LET named == {node_ids[j] : j \in 1..Len(node_ids)}
      Named(node) == StrV(node.id) \in named
      g2 == [i \in 1..Len(g) |->
               IF Named(g[i]) THEN [g[i] EXCEPT !.desired = MergeItems(@, patch)] ELSE g[i]]
      hit == SelectSeq(g2, Named)
  IN [graph |-> g2, results |-> [i \in 1..Len(hit) |-> NodeDoc(hit[i], secs)]]

\* db.query_list(QueryModel(query, model, section)): the matching nodes in
\* the store's order; which nodes a query matches is the store's business,
\* here every node does
query_list(g, sec) == [i \in 1..Len(g) |-> NodeDoc(g[i], <<sec>>)]

(***************************************************************************)
(* command.py: the parse entry point of every part, and the functions the  *)
(* resolved stages apply to the elements.                                  *)
(*                                                                         *)
(* env is the dict of the environment: items [k, v] with v a str value.    *)
(* An argument is a text; None and "" are both the empty text (the code    *)
(* tests an argument only for truth).  A parse result is                   *)
(* [ok, err, nodes, calls]: the stream operators the part resolves to, or  *)
(* the exception raised, and the store updates issued while parsing.       *)
(***************************************************************************)
POk(nodes) == [ok |-> TRUE, err |-> "", nodes |-> nodes, calls |-> <<>>]

PErr(kind) == [ok |-> FALSE, err |-> kind, nodes |-> <<>>, calls |-> <<>>]

\* EchoSource.parse is a generator function: calling it runs none of its
\* body and yields the generator
EchoSource_parse(arg, env) ==
  POk(<<[op |-> "echo", arg |-> arg, started |-> FALSE, ended |-> FALSE, pend |-> <<>>]>>)

\* the body of EchoSource.parse up to its loop, run by the first pull
EchoSource_elements(arg) ==
  LET js == JsonLoads(arg) IN
  IF ~js.ok THEN [ok |-> FALSE, err |-> "JSONDecodeError", elements |-> <<>>]
  ELSE IF js.v.t = "list" THEN [ok |-> TRUE, err |-> "", elements |-> js.v.l]
  ELSE IF js.v.t \in {"str", "num", "bool", "map"}
       THEN [ok |-> TRUE, err |-> "", elements |-> <<js.v>>]
  ELSE [ok |-> FALSE, err |-> "AttributeError", elements |-> <<>>]

MatchSource_parse(arg, env) ==
  IF ~MapHas(env, T_graph) THEN PErr("KeyError")
  ELSE IF arg = <<>> THEN PErr("CLIParseError")
  ELSE IF ~parse_query(arg).ok THEN PErr("ParseError")
  ELSE POk(<<[op |-> "query", graph |-> MapGet(env, T_graph).s,
              section |-> IF MapHas(env, T_section) THEN MapGet(env, T_section).s
                          ELSE T_reported,
              started |-> FALSE, ended |-> FALSE, pend |-> <<>>]>>)

EnvSource_parse(arg, env) ==
  POk(<<[op |-> "just", v |-> MapV(env), started |-> FALSE, ended |-> FALSE, pend |-> <<>>]>>)

\* CountCommand.parse.inc_prop and inc_identity: [ok, cnt, not_matched];
\* `arg in o` is outside the try block, its TypeError is raised
inc_prop(arg, o) ==
  LET has == PyIn(arg, o)
      got == PyGetItem(o, arg)
  IN IF ~has.ok THEN [ok |-> FALSE, cnt |-> 0, not_matched |-> 0]
     ELSE IF has.v /\ got.ok /\ PyIntOf(got.v).ok
          THEN [ok |-> TRUE, cnt |-> PyIntOf(got.v).v, not_matched |-> 0]
     ELSE [ok |-> TRUE, cnt |-> 0, not_matched |-> 1]

\* an inc_identity that counts its element as not matched
inc_identity_miss(o) == [ok |-> TRUE, cnt |-> 0, not_matched |-> 1]

inc_identity(o) == [ok |-> TRUE, cnt |-> 1, not_matched |-> 0]

CountCommand_parse(arg, env) ==
  POk(<<[op |-> "count", arg |-> arg, counter |-> 0, no_match |-> 0]>>)

default_chunk_size == 100

ChunkCommand_parse(arg, env) ==
  IF arg = <<>> THEN POk(<<[op |-> "chunks", n |-> default_chunk_size, buf |-> <<>>]>>)
  ELSE IF ~PyInt(arg).ok THEN PErr("ValueError")
  ELSE POk(<<[op |-> "chunks", n |-> PyInt(arg).v, buf |-> <<>>]>>)

\* FlattenCommand.parse.iterate: the elements of the stream made from it
iterate(it) == IF IsIterable(it) THEN IterItems(it) ELSE <<it>>

\* a flatmap operator: subs are the running sub-streams, nsub counts the
\* sub-streams started, srcdone tells that its source has ended, elog
\* names, for every element yielded, the sub-stream it came from
FlatMapNode(fn, graph, patch, secs) ==
  [op |-> "flatmap", fn |-> fn, graph |-> graph, patch |-> patch, secs |-> secs,
   subs |-> <<>>, nsub |-> 0, srcdone |-> FALSE, elog |-> <<>>]

FlattenCommand_parse(arg, env) == POk(<<FlatMapNode("iterate", <<>>, <<>>, <<>>)>>)

\* a hashed that serializes whatever it is given
hashed_any(item) == [ok |-> TRUE, v |-> StrV(JsonDumps(item))]

\* UniqCommand.parse.hashed
hashed(item) ==
  IF item.t = "map" THEN [ok |-> TRUE, v |-> StrV(JsonDumps(item))]
  ELSE [ok |-> FALSE, v |-> NullV]

\* what the set `visited` compares: equal values are one member, and
\* True == 1, False == 0
Hashable(item) == item.t \notin {"list", "map"}

HashKey(item) == IF item.t = "bool" THEN NumV(item.n) ELSE item

\* a has_not_seen that looks the element itself up in `visited`, not what
\* the set compares
has_not_seen_raw(item, visited) ==
  LET h == IF Hashable(item) THEN [ok |-> TRUE, v |-> HashKey(item)]
           ELSE IF item.t = "map" THEN [ok |-> TRUE, v |-> StrV(JsonDumps(item))]
           ELSE [ok |-> FALSE, v |-> NullV]
  IN IF ~h.ok THEN [ok |-> FALSE, keep |-> FALSE, visited |-> visited]
     ELSE IF item \in visited THEN [ok |-> TRUE, keep |-> FALSE, visited |-> visited]
     ELSE [ok |-> TRUE, keep |-> TRUE, visited |-> visited \cup {h.v}]

\* UniqCommand.parse.has_not_seen: [ok, keep, visited]
has_not_seen(item, visited) ==
  LET h == IF Hashable(item) THEN [ok |-> TRUE, v |-> HashKey(item)] ELSE hashed(item) IN
  IF ~h.ok THEN [ok |-> FALSE, keep |-> FALSE, visited |-> visited]
  ELSE IF h.v \in visited THEN [ok |-> TRUE, keep |-> FALSE, visited |-> visited]
  ELSE [ok |-> TRUE, keep |-> TRUE, visited |-> visited \cup {h.v}]

UniqCommand_parse(arg, env) == POk(<<[op |-> "filter", visited |-> {}]>>)

DesireCommand_patch(arg) ==
  IF arg # <<>> /\ Strip(arg) # <<>> THEN key_values_parser(arg) ELSE [ok |-> TRUE, v |-> <<>>]

MarkDeleteCommand_patch(arg) == [ok |-> TRUE, v |-> <<Item(T_delete, BoolV(TRUE))>>]

buffer_size == 1000

\* a SetDesiredState.parse that falls back to a graph of its own when the
\* environment names none
SetDesiredState_parse_default_graph(patch, env) ==
  IF ~patch.ok THEN PErr("ParseError")
  ELSE POk(<<[op |-> "chunks", n |-> buffer_size, buf |-> <<>>],
             FlatMapNode("set_desired",
                         IF MapHas(env, T_graph) THEN MapGet(env, T_graph).s ELSE <<"g">>,
                         patch.v, <<T_reported, T_desired>>)>>)

\* a SetDesiredState.parse that touches the store while the part is resolved
SetDesiredState_parse_eager(patch, env) ==
  IF ~MapHas(env, T_graph) THEN PErr("KeyError")
  ELSE IF ~patch.ok THEN PErr("ParseError")
  ELSE [ok |-> TRUE, err |-> "",
        nodes |-> <<[op |-> "chunks", n |-> buffer_size, buf |-> <<>>],
                    FlatMapNode("set_desired", MapGet(env, T_graph).s, patch.v, <<T_reported>>)>>,
        calls |-> <<[patch |-> patch.v, ids |-> <<>>, secs |-> <<T_reported>>, batch |-> 0]>>]

\* SetDesiredState.parse, patch being the command's own patch(arg)
SetDesiredState_parse(patch, env) ==
  LET result_section == IF MapHas(env, T_result_section)
                        THEN Split(MapGet(env, T_result_section).s, ",")
                        ELSE <<T_reported, T_desired>>
  IN IF ~MapHas(env, T_graph) THEN PErr("KeyError")
     ELSE IF ~patch.ok THEN PErr("ParseError")
     ELSE POk(<<[op |-> "chunks", n |-> buffer_size, buf |-> <<>>],
                FlatMapNode("set_desired", MapGet(env, T_graph).s, patch.v, result_section)>>)

DesireCommand_parse(arg, env) == SetDesiredState_parse(DesireCommand_patch(arg), env)

MarkDeleteCommand_parse(arg, env) == SetDesiredState_parse(MarkDeleteCommand_patch(arg), env)

\* the loop of SetDesiredState.set_desired over one batch, item by item:
\* `"_id" in item` or item["_id"] may raise TypeError; an item with `_id`
\* gives item["_id"], a str gives itself, any other item gives nothing
set_desired_raises(item) ==
  \/ ~PyIn(T_id, item).ok
  \/ PyIn(T_id, item).v /\ ~PyGetItem(item, T_id).ok

set_desired_has_id(item) == PyIn(T_id, item).v \/ item.t = "str"

set_desired_id(item) == IF PyIn(T_id, item).v THEN PyGetItem(item, T_id).v ELSE item

\* node_ids after the loop: [ok, ids]; not ok when an item raised
set_desired_node_ids(items) ==
  IF \E i \in 1..Len(items) : set_desired_raises(items[i]) THEN [ok |-> FALSE, ids |-> <<>>]
  ELSE LET with == SelectSeq(items, set_desired_has_id) IN
       [ok |-> TRUE, ids |-> [i \in 1..Len(with) |-> set_desired_id(with[i])]]

ListSink_parse(arg, env) == POk(<<[op |-> "list", acc |-> <<>>]>>)

all_sources == {"echo", "env", "match"}

all_sinks == {"out"}

all_commands == {"chunk", "flatten", "count", "desire", "mark_delete", "uniq"}

all_parts == all_sources \cup all_commands \cup all_sinks

\* the parse entry point of the part registered under a name
PartParse(name, arg, env) ==
  CASE name = "echo" -> EchoSource_parse(arg, env)
    [] name = "env" -> EnvSource_parse(arg, env)
    [] name = "match" -> MatchSource_parse(arg, env)
    [] name = "count" -> CountCommand_parse(arg, env)
    [] name = "chunk" -> ChunkCommand_parse(arg, env)
    [] name = "flatten" -> FlattenCommand_parse(arg, env)
    [] name = "uniq" -> UniqCommand_parse(arg, env)
    [] name = "desire" -> DesireCommand_parse(arg, env)
    [] name = "mark_delete" -> MarkDeleteCommand_parse(arg, env)
    [] name = "out" -> ListSink_parse(arg, env)

(***************************************************************************)
(* aiostream, as command.py uses it.                                       *)
(***************************************************************************)
\* a chunks that holds one element more than asked for
chunks_full_late(buf, n) == Len(buf) >= n + 1

\* a chunks that emits what is left at the end even when nothing is
chunks_last_always(buf) == <<ListV(buf)>>

\* a list that hands out what it collected when a stage raises
list_on_error_partial(acc, kind) ==
  [phase |-> "Completed", result |-> [has |-> TRUE, v |-> acc]]

\* stream.chunks(source, n): a chunk is its first element and up to n - 1
\* more; it is emitted as soon as it holds n elements
chunks_full(buf, n) == Len(buf) >= n

\* stream.chunks at the end of its source: the elements left are the last
\* chunk, and there is no chunk when none is left
chunks_last(buf) == IF buf = <<>> THEN <<>> ELSE <<ListV(buf)>>

\* stream.list(source) when a stage raises: the exception passes through,
\* the list collected so far is dropped
list_on_error(acc, kind) ==
  [phase |-> "Failed", result |-> [has |-> FALSE, v |-> <<>>]]

\* stream.list(source) at the end of its source: the list is the result
list_on_end(acc) == [phase |-> "Completed", result |-> [has |-> TRUE, v |-> acc]]

(***************************************************************************)
(* The run of one pipeline.                                                *)
(*   parts    the parsed pipeline: [name, arg] each                        *)
(*   env      the environment                                              *)
(*   phase    Parsed, Resolved, Running, Completed or Failed               *)
(*   error    the exception that ended the run, "" when there is none      *)
(*   nres     the number of parts resolved                                 *)
(*   ops      the stream operators of the resolved pipeline, source first, *)
(*            sink last, each with its own state                           *)
(*   result   the terminal value handed to the caller                      *)
(*   npulled  the number of elements pulled from the source                *)
(*   graph    the nodes of the graph store                                 *)
(*   calls    the update_nodes_desired calls issued, in order              *)
(*                                                                         *)
(* The stream is pulled by the sink.  An element a generator yields is     *)
(* handled by its consumer, and by the consumers of what that one yields,  *)
(* before anything else runs: a step of the run takes one element from     *)
(* where it is produced (the source, or a sub-stream of flatmap) through   *)
(* the operators after it, down to the operator that keeps it.  Only the   *)
(* sub-streams of a flatmap run beside each other and beside the source    *)
(* of the flatmap.                                                         *)
(***************************************************************************)
VARIABLES parts, env, phase, error, nres, ops, result, npulled, graph, calls

\* the state of the other components of the repository, each specified
\* further down: a resolved stage applied to two streams (reuse), the
\* parser of pipeline texts (parsed), the JWT check in front of a web
\* handler (web), ConfigOverrideService (watch), TimeSeriesDB (tsdb)
VARIABLES reuse, parsed, web, watch, tsdb

\* the variables of a run of a pipeline
cliVars == <<parts, env, phase, error, nres, ops, result, npulled, graph, calls>>

vars == <<parts, env, phase, error, nres, ops, result, npulled, graph, calls,
          reuse, parsed, web, watch, tsdb>>

\* the state of a component that takes no part in a specification
Unused == [unused |-> TRUE]

N == Len(ops)

NoResult == [has |-> FALSE, v |-> <<>>]

\* where an element or the end of a stream got to: the operators after it,
\* the exception a stage raised (if any), whether the sink saw the end
Fed(o) == [ops |-> o, err |-> "", fin |-> FALSE]

\* an error of a stage that is swallowed: the stream goes on
Failing_swallow(o, kind) == [ops |-> o, err |-> "", fin |-> FALSE]

Failing(o, kind) == [ops |-> o, err |-> kind, fin |-> FALSE]

\* stream.flatmap(source, func) takes the next element of its source: it
\* starts the sub-stream func(element), which runs beside the sub-streams
\* started before it.  nsub counts the sub-streams started.
flatmap_start(node, x) ==
  LET no == node.nsub + 1
      sub == IF node.fn = "iterate"
             THEN [no |-> no, called |-> TRUE, items |-> <<>>, pend |-> iterate(x)]
             ELSE [no |-> no, called |-> FALSE, items |-> x.l, pend |-> <<>>]
  IN [node EXCEPT !.nsub = no,
                  !.subs = IF sub.called /\ sub.pend = <<>> THEN @ ELSE Append(@, sub)]

\* operator i of o takes the element x
RECURSIVE Feed(_, _, _)
Feed(o, i, x) ==
  CASE o[i].op = "list" -> Fed([o EXCEPT ![i].acc = Append(@, x)])
    [] o[i].op = "count" ->
         LET r == IF o[i].arg # <<>> THEN inc_prop(o[i].arg, x) ELSE inc_identity(x) IN
         IF r.ok
         THEN Fed([o EXCEPT ![i].counter = @ + r.cnt, ![i].no_match = @ + r.not_matched])
         ELSE Failing(o, "TypeError")
    [] o[i].op = "chunks" ->
         LET buf == Append(o[i].buf, x) IN
         IF chunks_full(buf, o[i].n) THEN Feed([o EXCEPT ![i].buf = <<>>], i + 1, ListV(buf))
         ELSE Fed([o EXCEPT ![i].buf = buf])
    [] o[i].op = "filter" ->
         LET r == has_not_seen(x, o[i].visited) IN
         IF ~r.ok THEN Failing(o, "CLIParseError")
         ELSE IF r.keep THEN Feed([o EXCEPT ![i].visited = r.visited], i + 1, x)
         ELSE Fed(o)
    [] o[i].op = "flatmap" -> Fed([o EXCEPT ![i] = flatmap_start(@, x)])

\* operator i of o sees the end of its source
RECURSIVE EndOf(_, _)
EndOf(o, i) ==
  CASE o[i].op = "list" -> [ops |-> o, err |-> "", fin |-> TRUE]
    [] o[i].op = "count" ->
         LET d == Feed(o, i + 1, MapV(<<Item(T_matched, NumV(o[i].counter)),
                                        Item(T_not_matched, NumV(o[i].no_match))>>))
         IN IF d.err # "" THEN d ELSE EndOf(d.ops, i + 1)
    [] o[i].op = "chunks" ->
         LET last == chunks_last(o[i].buf)
             d == Feed([o EXCEPT ![i].buf = <<>>], i + 1, last[1])
         IN IF last = <<>> THEN EndOf(o, i + 1)
            ELSE IF d.err # "" THEN d ELSE EndOf(d.ops, i + 1)
    [] o[i].op = "filter" -> EndOf(o, i + 1)
    [] o[i].op = "flatmap" ->
         IF o[i].subs = <<>> THEN EndOf([o EXCEPT ![i].srcdone = TRUE], i + 1)
         ELSE Fed([o EXCEPT ![i].srcdone = TRUE])

\* a sub-stream of flatmap i has ended: flatmap ends when its source and
\* all its sub-streams have
SubEnded(o, i) == IF o[i].srcdone /\ o[i].subs = <<>> THEN EndOf(o, i + 1) ELSE Fed(o)

\* the outcome d of a step, as the sink sees it: an exception raised by a
\* stage passes through every operator after it and reaches the sink
Outcome(d) ==
  /\ ops' = d.ops
  /\ IF d.err # ""
     THEN /\ phase' = list_on_error(d.ops[Len(d.ops)].acc, d.err).phase
          /\ result' = list_on_error(d.ops[Len(d.ops)].acc, d.err).result
          /\ error' = d.err
     ELSE IF d.fin
     THEN /\ phase' = list_on_end(d.ops[Len(d.ops)].acc).phase
          /\ result' = list_on_end(d.ops[Len(d.ops)].acc).result
          /\ UNCHANGED error
     ELSE UNCHANGED <<phase, result, error>>

\* Parsed -> Resolved, one part at a time: the registry looks the name up
\* and calls the part's parse entry point; the first part is a source, the
\* others are commands, the last may be a sink, and a pipeline that names no
\* sink collects into a list
Resolve ==
  /\ phase = "Parsed"
  /\ nres < Len(parts)
  /\ LET p == parts[nres + 1]
         last == nres + 1 = Len(parts)
         placed == IF nres = 0 THEN p.name \in all_sources
                   ELSE p.name \in all_commands \/ (last /\ p.name \in all_sinks)
         r == IF p.name \notin all_parts THEN PErr("UnknownCommandError")
              ELSE IF ~placed THEN PErr("CLIParseError")
              ELSE PartParse(p.name, p.arg, env)
         sink == IF last /\ p.name \notin all_sinks THEN ListSink_parse(<<>>, env).nodes
                 ELSE <<>>
     IN IF r.ok
        THEN /\ ops' = ops \o r.nodes \o sink
             /\ nres' = nres + 1
             /\ calls' = calls \o r.calls
             /\ phase' = IF last THEN "Resolved" ELSE "Parsed"
             /\ UNCHANGED <<parts, env, error, result, npulled, graph>>
        ELSE /\ phase' = "Failed"
             /\ error' = r.err
             /\ calls' = calls \o r.calls
             /\ UNCHANGED <<parts, env, nres, ops, result, npulled, graph>>

\* Resolved -> Running: the sink starts to pull the composed stream
Start ==
  /\ phase = "Resolved"
  /\ phase' = "Running"
  /\ UNCHANGED <<parts, env, error, nres, ops, result, npulled, graph, calls>>

\* a source that yields the elements of the list pend: the next one goes
\* down the stream, or the source ends
YieldNext(pend) ==
  IF pend = <<>>
  THEN /\ Outcome(EndOf([ops EXCEPT ![1].started = TRUE, ![1].ended = TRUE, ![1].pend = <<>>], 2))
       /\ UNCHANGED npulled
  ELSE /\ Outcome(Feed([ops EXCEPT ![1].started = TRUE, ![1].pend = Tail(pend)], 2, Head(pend)))
       /\ npulled' = npulled + 1

\* EchoSource.parse, the generator: its first pull runs json.loads
EchoStep ==
  /\ phase = "Running"
  /\ ops[1].op = "echo"
  /\ ~ops[1].ended
  /\ LET e == EchoSource_elements(ops[1].arg) IN
     IF ops[1].started THEN YieldNext(ops[1].pend)
     ELSE IF e.ok THEN YieldNext(e.elements)
     ELSE Outcome(Failing(ops, e.err)) /\ UNCHANGED npulled
  /\ UNCHANGED <<parts, env, nres, graph, calls>>

\* stream.just(env): one element, then the end
EnvStep ==
  /\ phase = "Running"
  /\ ops[1].op = "just"
  /\ ~ops[1].ended
  /\ YieldNext(IF ops[1].started THEN <<>> ELSE <<ops[1].v>>)
  /\ UNCHANGED <<parts, env, nres, graph, calls>>

\* db.query_list: the first pull runs the query
MatchStep ==
  /\ phase = "Running"
  /\ ops[1].op = "query"
  /\ ~ops[1].ended
  /\ YieldNext(IF ops[1].started THEN ops[1].pend ELSE query_list(graph, ops[1].section))
  /\ UNCHANGED <<parts, env, nres, graph, calls>>

Remove(seq, k) == [j \in 1..(Len(seq) - 1) |-> IF j < k THEN seq[j] ELSE seq[j + 1]]

\* SetDesiredState.set_desired up to its first result, for one of the
\* batches whose call is due: the ids of the batch and the store update;
\* the store may fail the call
SetDesiredCall(i) ==
  /\ phase = "Running"
  /\ ops[i].op = "flatmap"
  /\ \E k \in 1..Len(ops[i].subs) :
     /\ ~ops[i].subs[k].called
     /\ LET ids == set_desired_node_ids(ops[i].subs[k].items)
            call == [patch |-> ops[i].patch, ids |-> ids.ids, secs |-> ops[i].secs,
                     batch |-> ops[i].subs[k].no]
            upd == update_nodes_desired(graph, ops[i].patch, ids.ids, ops[i].secs)
        IN IF ~ids.ok
           THEN Outcome(Failing(ops, "TypeError")) /\ UNCHANGED <<graph, calls>>
           ELSE \/ /\ calls' = Append(calls, call)
                   /\ graph' = upd.graph
                   /\ IF upd.results = <<>>
                      THEN Outcome(SubEnded([ops EXCEPT ![i].subs = Remove(@, k)], i))
                      ELSE Outcome(Fed([ops EXCEPT ![i].subs[k].called = TRUE,
                                                   ![i].subs[k].pend = upd.results]))
                \/ /\ calls' = Append(calls, call)
                   /\ Outcome(Failing(ops, "StoreError"))
                   /\ UNCHANGED graph
  /\ UNCHANGED <<parts, env, nres, npulled>>

\* flatmap yields the next element of one of its running sub-streams,
\* whichever has one; elog names the sub-stream of every element yielded
FlatMapEmit(i) ==
  /\ phase = "Running"
  /\ ops[i].op = "flatmap"
  /\ \E k \in 1..Len(ops[i].subs) :
     /\ ops[i].subs[k].called
     /\ LET sub == ops[i].subs[k]
            o == [ops EXCEPT ![i].elog = Append(@, sub.no),
                             ![i].subs = IF Len(sub.pend) = 1 THEN Remove(@, k)
                                         ELSE [@ EXCEPT ![k].pend = Tail(sub.pend)]]
            d == Feed(o, i + 1, Head(sub.pend))
        IN Outcome(IF d.err # "" THEN d ELSE SubEnded(d.ops, i))
  /\ UNCHANGED <<parts, env, nres, npulled, graph, calls>>

(***************************************************************************)
(* The pipelines and the store the runs start from.                        *)
(***************************************************************************)
MaxFlattenLen == 2
MaxChunkLen == 5
MaxUniqLen == 2
MaxCountLen == 2
MaxDesireLen == 2

Part(name, arg) == [name |-> name, arg |-> arg]

Pipeline(ps, e) == [parts |-> ps, env |-> e]

SeqsUpTo(S, n) == UNION {[1..k -> S] : k \in 0..n}

\* echo <the JSON text of the list xs>
EchoOf(xs) == Part("echo", Dumps(ListV(xs), FALSE))

A_ab == <<"a", "b">>
A_id1 == <<"i", "d", "1">>
A_id2 == <<"i", "d", "2">>
A_my_id == <<"m", "y", "_", "i", "d">>
A_patch == <<"a", "=", "b", " ", "n", "=", "2">>

EnvNone == <<>>

EnvGraph == <<Item(T_graph, StrV(<<"g">>))>>

EnvGraphDesired == <<Item(T_graph, StrV(<<"g">>)), Item(T_result_section, StrV(T_desired))>>

SmallGraph ==
  <<[id |-> A_id1, reported |-> MapV(<<Item(<<"k">>, NumV(1))>>),
     desired |-> <<Item(<<"o">>, StrV(<<"x">>)), Item(<<"a">>, StrV(<<"c">>))>>],
    [id |-> A_my_id, reported |-> MapV(<<>>), desired |-> <<>>],
    [id |-> A_id2, reported |-> MapV(<<Item(<<"k">>, NumV(2))>>), desired |-> <<>>]>>

FlattenVals ==
  {NumV(7), StrV(A_ab), ListV(<<NumV(1), NumV(2)>>), ListV(<<ListV(<<NumV(3)>>)>>),
   MapV(<<Item(<<"a">>, NumV(1))>>), NullV}

UniqVals ==
  {NumV(1), BoolV(TRUE), StrV(<<"a">>), ListV(<<NumV(1)>>),
   MapV(<<Item(<<"a">>, NumV(1)), Item(<<"b">>, NumV(2))>>),
   MapV(<<Item(<<"b">>, NumV(2)), Item(<<"a">>, NumV(1))>>)}

CountVals ==
  {NumV(3), StrV(<<"a">>), MapV(<<Item(<<"a">>, NumV(2))>>),
   MapV(<<Item(<<"a">>, StrV(<<"x">>))>>), MapV(<<Item(<<"b">>, NumV(1))>>)}

DesireVals ==
  {StrV(A_id1), StrV(A_id2), StrV(A_my_id), MapV(<<Item(T_id, StrV(A_id1))>>),
   MapV(<<Item(<<"a">>, NumV(1))>>), NumV(5), ListV(<<StrV(A_id2)>>)}

ChunkArgs == {<<"1">>, <<"2">>, <<"3">>, <<"0">>, <<"-", "1">>, <<"x">>, <<>>}

FlattenRuns ==
  {Pipeline(<<EchoOf(xs), Part("flatten", <<>>)>>, EnvNone) : xs \in SeqsUpTo(FlattenVals, MaxFlattenLen)}

ChunkRuns ==
  {Pipeline(<<EchoOf([i \in 1..k |-> NumV(i)]), Part("chunk", a)>>, EnvNone) :
     k \in 0..MaxChunkLen, a \in ChunkArgs}

UniqRuns ==
  {Pipeline(<<EchoOf(xs), Part("uniq", <<>>)>>, EnvNone) : xs \in SeqsUpTo(UniqVals, MaxUniqLen)}

\* echo <elements> | uniq | uniq
UniqUniqRuns ==
  {Pipeline(<<EchoOf(xs), Part("uniq", <<>>), Part("uniq", <<>>)>>, EnvNone) :
     xs \in SeqsUpTo(UniqVals, MaxUniqLen)}

\* echo <elements> | chunk n | flatten
ChunkFlattenRuns ==
  {Pipeline(<<EchoOf(xs), Part("chunk", a), Part("flatten", <<>>)>>, EnvNone) :
     xs \in SeqsUpTo(FlattenVals, MaxFlattenLen), a \in {<<"1">>, <<"2">>}}

CountRuns ==
  {Pipeline(<<EchoOf(xs), Part("count", a)>>, EnvNone) :
     xs \in SeqsUpTo(CountVals, MaxCountLen), a \in {<<>>, <<"a">>}}

DesireRuns ==
  {Pipeline(<<EchoOf(xs), Part(c, A_patch)>>, e) :
     xs \in SeqsUpTo(DesireVals, MaxDesireLen), c \in {"desire", "mark_delete"},
     e \in {EnvGraph, EnvGraphDesired}}

SourceRuns ==
  {Pipeline(<<Part("env", <<>>)>>, EnvGraph),
   Pipeline(<<Part("env", <<>>), Part("count", <<>>)>>, EnvNone),
   Pipeline(<<Part("match", <<"a", "l", "l">>)>>, EnvGraph),
   Pipeline(<<Part("match", <<"a", "l", "l">>), Part("mark_delete", <<>>), Part("out", <<>>)>>,
            EnvGraph),
   Pipeline(<<Part("echo", <<"\"", "a", "b", "\"">>)>>, EnvNone),
   Pipeline(<<Part("echo", <<"{", "\"", "a", "\"", ":", "1", "}">>), Part("out", <<>>)>>, EnvNone),
   Pipeline(<<Part("echo", T_null)>>, EnvNone),
   Pipeline(<<Part("echo", <<"[", "1", ",">>)>>, EnvNone),
   Pipeline(<<Part("echo", <<"[", "1", ",">>), Part("count", <<>>)>>, EnvNone),
   Pipeline(<<Part("echo", <<>>)>>, EnvNone)}

\* pipelines with a part that does not resolve
BadRuns ==
  {Pipeline(<<EchoOf(<<StrV(A_id1)>>), Part(c, A_patch)>> \o bad, EnvGraph) :
     c \in {"desire", "mark_delete"},
     bad \in {<<Part("foo", <<>>)>>, <<Part("chunk", <<"x">>)>>, <<Part("echo", <<"1">>)>>,
              <<Part("out", <<>>), Part("count", <<>>)>>,
              <<Part("desire", <<"a">>)>>}}
  \cup {Pipeline(<<EchoOf(<<StrV(A_id1)>>), Part(c, A_patch)>>, EnvNone) :
          c \in {"desire", "mark_delete"}}
  \cup {Pipeline(<<Part("match", a)>> \o rest, e) :
          a \in {<<"a", "l", "l">>, <<>>, <<"a", "=">>}, e \in {EnvNone, EnvGraph},
          rest \in {<<>>, <<Part("mark_delete", <<>>)>>}}
  \cup {Pipeline(<<Part("count", <<>>)>>, EnvNone), Pipeline(<<Part("foo", <<>>)>>, EnvNone)}

Pipelines ==
  FlattenRuns \cup ChunkRuns \cup UniqRuns \cup CountRuns \cup DesireRuns \cup SourceRuns
    \cup BadRuns \cup UniqUniqRuns \cup ChunkFlattenRuns

Init ==
  /\ \E p \in Pipelines : parts = p.parts /\ env = p.env
  /\ phase = "Parsed"
  /\ error = ""
  /\ nres = 0
  /\ ops = <<>>
  /\ result = NoResult
  /\ npulled = 0
  /\ graph = SmallGraph
  /\ calls = <<>>
  /\ reuse = Unused /\ parsed = Unused /\ web = Unused /\ watch = Unused /\ tsdb = Unused

Commands == 2..(N - 1)

Next ==
  \/ Resolve /\ UNCHANGED <<reuse, parsed, web, watch, tsdb>>
  \/ Start /\ UNCHANGED <<reuse, parsed, web, watch, tsdb>>
  \/ EchoStep /\ UNCHANGED <<reuse, parsed, web, watch, tsdb>>
  \/ EnvStep /\ UNCHANGED <<reuse, parsed, web, watch, tsdb>>
  \/ MatchStep /\ UNCHANGED <<reuse, parsed, web, watch, tsdb>>
  \/ (\E i \in Commands : SetDesiredCall(i)) /\ UNCHANGED <<reuse, parsed, web, watch, tsdb>>
  \/ (\E i \in Commands : FlatMapEmit(i)) /\ UNCHANGED <<reuse, parsed, web, watch, tsdb>>

Spec == Init /\ [][Next]_vars

(***************************************************************************)
(* Runs of `echo "ab...c" | flatten | desire a=b n=2`: the str echoed has  *)
(* MaxBatchLen - 1 or MaxBatchLen characters, flatten yields them one by   *)
(* one, and desire takes each as a node id.  The store holds the nodes a,  *)
(* b and c; a and b come first in the str, and every character after the   *)
(* first buffer_size ones is c.                                            *)
(***************************************************************************)
MaxBatchLen == 1001

BatchText(n) ==
  <<"\"">> \o [i \in 1..n |-> IF i = 1 THEN "a" ELSE IF i = 2 THEN "b"
                              ELSE IF i > buffer_size THEN "c" ELSE "x"] \o <<"\"">>

BatchGraph ==
  <<[id |-> <<"a">>, reported |-> MapV(<<>>), desired |-> <<>>],
    [id |-> <<"b">>, reported |-> MapV(<<>>), desired |-> <<>>],
    [id |-> <<"c">>, reported |-> MapV(<<>>), desired |-> <<>>]>>

InitBatch ==
  /\ \E n \in {MaxBatchLen - 1, MaxBatchLen} :
       parts = <<Part("echo", BatchText(n)), Part("flatten", <<>>), Part("desire", A_patch)>>
  /\ env = EnvGraphDesired
  /\ phase = "Parsed"
  /\ error = ""
  /\ nres = 0
  /\ ops = <<>>
  /\ result = NoResult
  /\ npulled = 0
  /\ graph = BatchGraph
  /\ calls = <<>>
  /\ reuse = Unused /\ parsed = Unused /\ web = Unused /\ watch = Unused /\ tsdb = Unused

NextBatch ==
  \/ Resolve /\ UNCHANGED <<reuse, parsed, web, watch, tsdb>>
  \/ Start /\ UNCHANGED <<reuse, parsed, web, watch, tsdb>>
  \/ EchoStep /\ UNCHANGED <<reuse, parsed, web, watch, tsdb>>
  \/ (\E i \in Commands : SetDesiredCall(i)) /\ UNCHANGED <<reuse, parsed, web, watch, tsdb>>
  \/ (\E i \in Commands : FlatMapEmit(i)) /\ UNCHANGED <<reuse, parsed, web, watch, tsdb>>

SpecBatch == InitBatch /\ [][NextBatch]_vars

(***************************************************************************)
(* Runs that the caller may cancel. A cancellation is delivered where the  *)
(* run is suspended: between two steps of the run, a store call in flight  *)
(* having been finished or abandoned as a whole. The run ends Failed with  *)
(* CancelledError and hands out no result.                                 *)
(***************************************************************************)
Cancel ==
  /\ phase = "Running"
  /\ phase' = "Failed"
  /\ error' = "CancelledError"
  /\ UNCHANGED <<parts, env, nres, ops, result, npulled, graph, calls>>

NextCancel ==
  \/ Next
  \/ Cancel /\ UNCHANGED <<reuse, parsed, web, watch, tsdb>>

SpecCancel == Init /\ [][NextCancel]_vars

(***************************************************************************)
(* A resolved stage applied to two streams. parse of uniq, count and chunk *)
(* returns a Flow, a function from a stream to a stream; what parse itself *)
(* creates (uniq: the set visited) exists once per resolved stage, what    *)
(* the Flow creates when it is applied (count: counter and no_match,       *)
(* chunk: the chunk being filled) exists once per application. Two         *)
(* streams run through the stage with their pulls interleaved: either each *)
(* execution resolved the stage for itself (own), or one resolved stage is *)
(* applied to both.                                                        *)
(***************************************************************************)
MaxReuseLen == 2

ReuseVals == {NumV(1), BoolV(TRUE), StrV(<<"a">>)}

ReuseStages == {Part("uniq", <<>>), Part("count", <<>>), Part("chunk", <<"2">>)}

\* parse of the stage: the operator with the state parse creates
ResolvedFlow(stage) == PartParse(stage.name, stage.arg, EnvNone).nodes[1]

\* the operator as an application sees it: has_not_seen closes over the
\* visited of the resolved stage
Closure(node, flow) == IF node.op = "filter" THEN [node EXCEPT !.visited = flow.visited] ELSE node

\* the stream flow(in_stream), collected into a list
Execution(f, flow, xs) ==
  [flow |-> f, ops |-> <<flow>> \o ListSink_parse(<<>>, EnvNone).nodes, ins |-> xs,
   phase |-> "Running", error |-> "", result |-> NoResult]

CliIdle ==
  /\ parts = <<>>
  /\ env = EnvNone
  /\ phase = "Idle"
  /\ error = ""
  /\ nres = 0
  /\ ops = <<>>
  /\ result = NoResult
  /\ npulled = 0
  /\ graph = <<>>
  /\ calls = <<>>

InitReuse ==
  /\ CliIdle
  /\ \E stage \in ReuseStages, own \in BOOLEAN,
        xs \in SeqsUpTo(ReuseVals, MaxReuseLen), ys \in SeqsUpTo(ReuseVals, MaxReuseLen) :
       LET flow == ResolvedFlow(stage) IN
       reuse = [stage |-> stage, own |-> own,
                flows |-> IF own THEN <<flow, flow>> ELSE <<flow>>,
                ex |-> <<Execution(1, flow, xs), Execution(IF own THEN 2 ELSE 1, flow, ys)>>,
                input |-> <<xs, ys>>]
  /\ parsed = Unused /\ web = Unused /\ watch = Unused /\ tsdb = Unused

\* what a step of execution e leaves behind: d is where the element or the
\* end of the stream got to
ReuseOutcome(e, d, rest) ==
  LET x == reuse.ex[e]
      sink == d.ops[Len(d.ops)].acc
      end == IF d.err # "" THEN list_on_error(sink, d.err) ELSE list_on_end(sink)
  IN reuse' = [reuse EXCEPT
       !.flows[x.flow] = Closure(@, d.ops[1]),
       !.ex[e] = [x EXCEPT !.ops = d.ops, !.ins = rest,
                           !.phase = IF d.err # "" \/ d.fin THEN end.phase ELSE @,
                           !.result = IF d.err # "" \/ d.fin THEN end.result ELSE @,
                           !.error = d.err]]

\* the sink of execution e pulls the next element of its stream
ReusePull(e) ==
  LET x == reuse.ex[e]
      o == [x.ops EXCEPT ![1] = Closure(@, reuse.flows[x.flow])]
  IN /\ x.phase = "Running"
     /\ x.ins # <<>>
     /\ ReuseOutcome(e, Feed(o, 1, Head(x.ins)), Tail(x.ins))

\* the stream of execution e ends
ReuseEnd(e) ==
  LET x == reuse.ex[e]
      o == [x.ops EXCEPT ![1] = Closure(@, reuse.flows[x.flow])]
  IN /\ x.phase = "Running"
     /\ x.ins = <<>>
     /\ ReuseOutcome(e, EndOf(o, 1), <<>>)

NextReuse ==
  \/ (\E e \in 1..2 : ReusePull(e)) /\ UNCHANGED <<cliVars, parsed, web, watch, tsdb>>
  \/ (\E e \in 1..2 : ReuseEnd(e)) /\ UNCHANGED <<cliVars, parsed, web, watch, tsdb>>

SpecReuse == InitReuse /\ [][NextReuse]_vars

(***************************************************************************)
(* The Parser of pipeline texts (core.cli.cli): it scans the text once,    *)
(* cuts it at every `|` that is not inside a quoted substring, and takes   *)
(* of every segment the first blank-delimited token as the name and the    *)
(* trimmed rest as the raw argument. It fails with ParseError for an empty *)
(* expression, a segment without a name and unbalanced quoting.            *)
(***************************************************************************)
MaxTextLen == 7

TextChars == {"a", " ", "|", "\""}

\* a `|` that ends a segment wherever it stands
SplitsHere_any(c, quoted) == c = "|"

\* does the character c, read inside (quoted) or outside a quoted
\* substring, end the segment
SplitsHere(c, quoted) == c = "|" /\ ~quoted

\* the scan: [ok, segs], not ok when a quote is left open
RECURSIVE ScanSegments(_, _, _, _)
ScanSegments(s, cur, quoted, acc) ==
  IF s = <<>> THEN [ok |-> ~quoted, segs |-> Append(acc, cur)]
  ELSE IF SplitsHere(Head(s), quoted) THEN ScanSegments(Tail(s), <<>>, quoted, Append(acc, cur))
  ELSE ScanSegments(Tail(s), Append(cur, Head(s)),
                    IF Head(s) = "\"" THEN ~quoted ELSE quoted, acc)

\* PipelinePart { name, argument: Optional<String> }
PipelinePart(name, rest) == [name |-> name, has_arg |-> rest # <<>>, arg |-> rest]

ParsePart(seg) ==
  LET t == Strip(seg)
      name == Split(t, " ")[1]
  IN IF t = <<>> THEN [ok |-> FALSE, part |-> PipelinePart(<<>>, <<>>)]
     ELSE [ok |-> TRUE, part |-> PipelinePart(name, Strip(Slice(t, Len(name) + 1, Len(t))))]

Parser(text) ==
  LET scan == ScanSegments(text, <<>>, FALSE, <<>>)
      ps == [k \in 1..Len(scan.segs) |-> ParsePart(scan.segs[k])]
  IN IF text = <<>> \/ ~scan.ok \/ \E k \in 1..Len(ps) : ~ps[k].ok
     THEN [ok |-> FALSE, err |-> "ParseError", parts |-> <<>>]
     ELSE [ok |-> TRUE, err |-> "", parts |-> [k \in 1..Len(ps) |-> ps[k].part]]

InitParse ==
  /\ CliIdle
  /\ \E text \in SeqsUpTo(TextChars, MaxTextLen) :
       parsed = [text |-> text, done |-> FALSE, out |-> [ok |-> FALSE, err |-> "", parts |-> <<>>]]
  /\ reuse = Unused /\ web = Unused /\ watch = Unused /\ tsdb = Unused

\* the text is parsed, once
ParseText ==
  /\ ~parsed.done
  /\ parsed' = [parsed EXCEPT !.done = TRUE, !.out = Parser(parsed.text)]
  /\ UNCHANGED <<cliVars, reuse, web, watch, tsdb>>

NextParse == ParseText

SpecParse == InitParse /\ [][NextParse]_vars

(***************************************************************************)
(* The JWT check in front of a web handler (resotolib/jwt.py and the       *)
(* middleware check_jwt of core.web.auth). An encoded JWT is a text; what  *)
(* it decodes to is looked up in Issued: header, payload and signature. A  *)
(* key derived from a pre-shared key is the pair of the key and the salt   *)
(* (pbkdf2_hmac, taken to be free of collisions), a signature is the       *)
(* signing key with what it signs (HMAC, taken to be unforgeable).         *)
(***************************************************************************)
expire_in == 300

T_Bearer == <<"B", "e", "a", "r", "e", "r">>
T_Authorization == <<"A", "u", "t", "h", "o", "r", "i", "z", "a", "t", "i", "o", "n">>

\* str.lower() and str.upper() of a character, for the letters used here
LowerChar(c) ==
  CASE c = "A" -> "a" [] c = "B" -> "b" [] c = "E" -> "e" [] c = "R" -> "r"
    [] c = "U" -> "u" [] c = "T" -> "t" [] c = "H" -> "h" [] c = "X" -> "x"
    [] OTHER -> c

UpperChar(c) ==
  CASE c = "a" -> "A" [] c = "b" -> "B" [] c = "e" -> "E" [] c = "r" -> "R"
    [] c = "u" -> "U" [] c = "t" -> "T" [] c = "h" -> "H" [] c = "x" -> "X"
    [] OTHER -> c

LowerText(s) == [i \in 1..Len(s) |-> LowerChar(s[i])]

\* str.capitalize()
Capitalize(s) == [i \in 1..Len(s) |-> IF i = 1 THEN UpperChar(s[i]) ELSE LowerChar(s[i])]

\* key_from_psk(psk, salt)
key_from_psk(psk, salt) == [psk |-> psk, salt |-> salt]

\* jwt.encode(payload, key, algorithm, headers): the signed token
jwt_encode(payload, key, alg, headers) ==
  [header |-> [headers EXCEPT !.alg = alg], payload |-> payload,
   sig |-> [key |-> key, alg |-> alg, payload |-> payload]]

\* encode_jwt_psk(payload, psk, headers); salt is what os.urandom returned
encode_jwt_psk(payload, psk, headers, salt) ==
  jwt_encode(payload, key_from_psk(psk, salt), "HS256", [headers EXCEPT !.salt = salt])

\* encode_jwt(payload, key) with a pre-shared key and the default expire_in
encode_jwt(payload, key, salt, time) ==
  LET p == IF expire_in > 0 /\ ~MapHas(payload, "exp")
           THEN MapSet(payload, "exp", time + expire_in) ELSE payload
  IN encode_jwt_psk(p, key, [typ |-> "JWT", alg |-> "", salt |-> ""], salt)

NoJwt == [header |-> [typ |-> "", alg |-> "", salt |-> ""], payload |-> <<>>,
          sig |-> [key |-> key_from_psk("", ""), alg |-> "", payload |-> <<>>]]

A_claims == <<Item("foo", "bla")>>

\* the tokens a client can send, by their text: made by encode_jwt at time
\* 0 with the key of the server (G), with another key (W), with the key of
\* the server and an exp of its own that has passed (E); made by other
\* means with the header of another algorithm (N, R); K is not a JWT
Issued(enc) ==
  CASE enc = <<"G">> -> encode_jwt(A_claims, "test", "s1", 0)
    [] enc = <<"W">> -> encode_jwt(A_claims, "wrong!", "s2", 0)
    [] enc = <<"E">> -> encode_jwt(MapSet(A_claims, "exp", 0), "test", "s3", 0)
    [] enc = <<"N">> -> [encode_jwt(A_claims, "test", "s1", 0) EXCEPT !.header.alg = "none"]
    [] enc = <<"R">> -> [encode_jwt(A_claims, "test", "s1", 0) EXCEPT !.header.alg = "RS256"]
    [] OTHER -> NoJwt

IsJwt(enc) == Issued(enc) # NoJwt

JwtNone == [kind |-> "none", claims |-> <<>>, err |-> ""]

JwtRaise(err) == [kind |-> "raise", claims |-> <<>>, err |-> err]

JwtClaims(claims) == [kind |-> "claims", claims |-> claims, err |-> ""]

\* a jwt.decode that takes the payload as it is
jwt_decode_unverified(enc, key, algorithms, time) == JwtClaims(Issued(enc).payload)

\* jwt.decode(encoded_jwt, key, algorithms): signature, then exp
jwt_decode(enc, key, algorithms, time) ==
  LET tok == Issued(enc) IN
  IF ~IsJwt(enc) THEN JwtRaise("DecodeError")
  ELSE IF tok.header.alg \notin algorithms THEN JwtRaise("InvalidAlgorithmError")
  ELSE IF tok.sig # [key |-> key, alg |-> tok.header.alg, payload |-> tok.payload]
       THEN JwtRaise("InvalidSignatureError")
  ELSE IF MapHas(tok.payload, "exp") /\ MapGet(tok.payload, "exp") <= time
       THEN JwtRaise("ExpiredSignatureError")
  ELSE JwtClaims(tok.payload)

\* decode_jwt_psk(encoded_jwt, psk)
decode_jwt_psk(enc, psk, time) ==
  jwt_decode(enc, key_from_psk(psk, Issued(enc).header.salt), {"HS256"}, time)

\* decode_jwt(encoded_jwt, psk_or_cert), psk_or_cert being a str
decode_jwt(enc, psk, time) ==
  IF ~IsJwt(enc) THEN JwtRaise("DecodeError")
  ELSE IF Issued(enc).header.alg = "RS256" THEN JwtRaise("AssertionError")
  ELSE IF Issued(enc).header.alg = "HS256" THEN decode_jwt_psk(enc, psk, time)
  ELSE JwtRaise("ValueError")

\* decode_jwt_from_header_value(authorization_header, psk_or_cert, scheme)
decode_jwt_from_header_value(authorization_header, psk, scheme, time) ==
  IF \/ Len(authorization_header) <= Len(scheme) + 1
     \/ LowerText(Slice(authorization_header, 1, Len(scheme))) # LowerText(scheme)
     \/ Slice(authorization_header, Len(scheme) + 1, Len(scheme) + 1) # <<" ">>
  THEN JwtNone
  ELSE decode_jwt(Slice(authorization_header, Len(scheme) + 2, Len(authorization_header)),
                  psk, time)

\* decode_jwt_from_headers(http_headers, psk_or_cert): http_headers are
\* the items of the request's headers
decode_jwt_from_headers(http_headers, psk, time) ==
  LET capitalized == [i \in 1..Len(http_headers) |->
                        Item(Capitalize(http_headers[i].k), http_headers[i].v)]
  IN IF ~MapHas(capitalized, T_Authorization) THEN JwtNone
     ELSE decode_jwt_from_header_value(MapGet(capitalized, T_Authorization), psk, T_Bearer, time)

\* the pre-shared key of Application(middlewares=[check_jwt("test")])
ServerPsk == "test"

HeaderKeys == {T_Authorization, LowerText(T_Authorization), <<"x", "-", "a">>}

Schemes == {T_Bearer, LowerText(T_Bearer), <<"B", "a", "s", "i", "c", "s">>}

TokenTexts == {<<"G">>, <<"W">>, <<"E">>, <<"N">>, <<"R">>, <<"K">>, <<>>}

Requests ==
  {<<>>} \cup {<<Item(k, sch \o sep \o tok)>> :
                 k \in HeaderKeys, sch \in Schemes, sep \in {<<" ">>, <<"=">>, <<>>},
                 tok \in TokenTexts}

InitWeb ==
  /\ CliIdle
  /\ \E headers \in Requests, time \in {1, expire_in} :
       web = [headers |-> headers, time |-> time, stage |-> "received", status |-> 0,
              handled |-> FALSE, context |-> <<>>, seen |-> <<>>]
  /\ reuse = Unused /\ parsed = Unused /\ watch = Unused /\ tsdb = Unused

\* the middleware check_jwt(psk): the claims decoded from the request's
\* headers go into the context and the request to the handler; without
\* claims, or when decoding raises, the answer is 401
check_jwt ==
  /\ web.stage = "received"
  /\ LET r == decode_jwt_from_headers(web.headers, ServerPsk, web.time) IN
     web' = IF r.kind = "claims"
            THEN [web EXCEPT !.stage = "authorized", !.context = r.claims]
            ELSE [web EXCEPT !.stage = "responded", !.status = 401]
  /\ UNCHANGED <<cliVars, reuse, parsed, watch, tsdb>>

\* the handler: it reads the claims with jwt_from_context and answers
hello ==
  /\ web.stage = "authorized"
  /\ web' = [web EXCEPT !.stage = "responded", !.status = 200, !.handled = TRUE,
                        !.seen = web.context]
  /\ UNCHANGED <<cliVars, reuse, parsed, watch, tsdb>>

NextWeb ==
  \/ check_jwt
  \/ hello

SpecWeb == InitWeb /\ [][NextWeb]_vars

(***************************************************************************)
(* ConfigOverrideService (resotocore/config/config_override_service.py):   *)
(* watch_for_changes starts a task that runs the loop watcher(), stop      *)
(* sets the event stop_watcher and forgets the task. The callers and the   *)
(* watcher tasks share one event loop: a call of watch_for_changes or stop *)
(* runs as a whole, a watcher runs from one await to the next. The         *)
(* override file has a modification time and, with it, a content.          *)
(***************************************************************************)
MaxTasks == 2
MaxMtime == 2

\* asyncio.create_task(watcher()): the loop starts at its while condition
NewWatcher == [pc |-> "while", mtime_hash |-> 0, stopped |-> FALSE]

\* a task that has not been created
NoWatcher == [pc |-> "none", mtime_hash |-> 0, stopped |-> FALSE]

Created == {t \in 1..MaxTasks : watch.tasks[t].pc # "none"}

InitWatch ==
  /\ CliIdle
  /\ watch = [stop_watcher |-> FALSE, watcher_task |-> 0, mtime_hash |-> 0,
              overrides |-> 1, file |-> 1, tasks |-> [t \in 1..MaxTasks |-> NoWatcher]]
  /\ reuse = Unused /\ parsed = Unused /\ web = Unused /\ tsdb = Unused

\* watch_for_changes(): nothing when a task is remembered; else the event
\* is cleared and a new task created
watch_for_changes ==
  /\ Cardinality(Created) < MaxTasks
  /\ watch.watcher_task = 0
  /\ watch' = [watch EXCEPT !.stop_watcher = FALSE,
                            !.watcher_task = Cardinality(Created) + 1,
                            !.tasks[Cardinality(Created) + 1] = NewWatcher]

\* stop(): the loops alive at this time are the ones to stop (stopped)
stop ==
  /\ watch.watcher_task # 0
  /\ watch' = [watch EXCEPT
       !.stop_watcher = TRUE,
       !.watcher_task = 0,
       !.tasks = [t \in 1..MaxTasks |->
                    IF watch.tasks[t].pc \notin {"none", "done"}
                    THEN [watch.tasks[t] EXCEPT !.stopped = TRUE]
                    ELSE watch.tasks[t]]]

\* the override file is written
Touch ==
  /\ watch.file < MaxMtime
  /\ watch' = [watch EXCEPT !.file = @ + 1]

\* while not self.stop_watcher.is_set()
WatcherWhile(t) ==
  /\ watch.tasks[t].pc = "while"
  /\ watch' = [watch EXCEPT !.tasks[t].pc = IF watch.stop_watcher THEN "done" ELSE "stat"]

\* the awaits of isdir, scandir and stat are through: the hash of the
\* modification times is compared with self.mtime_hash and stored
WatcherStat(t) ==
  /\ watch.tasks[t].pc = "stat"
  /\ watch' = IF watch.file = watch.mtime_hash
              THEN [watch EXCEPT !.tasks[t].pc = "sleep", !.tasks[t].mtime_hash = watch.file]
              ELSE [watch EXCEPT !.tasks[t].pc = "load", !.tasks[t].mtime_hash = watch.file,
                                 !.mtime_hash = watch.file]

\* run_async(_load_overrides) is through: a difference is stored and the
\* hooks are called
WatcherLoad(t) ==
  /\ watch.tasks[t].pc = "load"
  /\ watch' = IF watch.file # watch.overrides
              THEN [watch EXCEPT !.tasks[t].pc = "hook", !.overrides = watch.file]
              ELSE [watch EXCEPT !.tasks[t].pc = "sleep"]

\* await hook(self.overrides) is through
WatcherHook(t) ==
  /\ watch.tasks[t].pc = "hook"
  /\ watch' = [watch EXCEPT !.tasks[t].pc = "sleep"]

\* await asyncio.sleep(self.sleep_time) is through
WatcherSleep(t) ==
  /\ watch.tasks[t].pc = "sleep"
  /\ watch' = [watch EXCEPT !.tasks[t].pc = "while"]

watcher(t) ==
  /\ \/ WatcherWhile(t)
     \/ WatcherStat(t)
     \/ WatcherLoad(t)
     \/ WatcherHook(t)
     \/ WatcherSleep(t)
  /\ UNCHANGED <<cliVars, reuse, parsed, web, tsdb>>

NextWatch ==
  \/ watch_for_changes /\ UNCHANGED <<cliVars, reuse, parsed, web, tsdb>>
  \/ stop /\ UNCHANGED <<cliVars, reuse, parsed, web, tsdb>>
  \/ Touch /\ UNCHANGED <<cliVars, reuse, parsed, web, tsdb>>
  \/ \E t \in 1..MaxTasks : watcher(t)

SpecWatch == InitWatch /\ [][NextWatch]_vars

\* the event loop runs every task that is ready
SpecWatchFair == SpecWatch /\ \A t \in 1..MaxTasks : WF_vars(watcher(t))

(***************************************************************************)
(* TimeSeriesDB.compact_time_series (resotocore/db/timeseriesdb.py), run   *)
(* by several processes against one database. Times are minutes. The meta  *)
(* collection holds the documents last_run and lock; it has a TTL index on *)
(* the attribute expires, so the database removes the lock document once   *)
(* its expires time has passed by the index's expiry time. An invocation   *)
(* runs from one await to the next; the database serves one request at a   *)
(* time. There is one time series and one bucket.                          *)
(***************************************************************************)
MaxTicks == 4

tick_minutes == 60
one_year == 525600
lock_expires == 15
ttl_expiry_time == 180
bucket_end == 1051200

\* config.db.time_series_buckets: one bucket, from now on, of one hour
bucket_start == 0
bucket_resolution == 60
smallest_resolution == bucket_resolution

Procs == {1, 2}

NoDoc == [has |-> FALSE, at |-> 0]

Doc(at) == [has |-> TRUE, at |-> at]

Max2(a, b) == IF a >= b THEN a ELSE b

IdleProc == [pc |-> "idle", now |-> 0, last_run |-> 0]

InitTsdb ==
  /\ CliIdle
  /\ tsdb = [clock |-> 0, ticks |-> 0, last_run |-> NoDoc, lock |-> NoDoc, owner |-> 0,
             upto |-> 0 - one_year, procs |-> [p \in Procs |-> IdleProc]]
  /\ reuse = Unused /\ parsed = Unused /\ web = Unused /\ watch = Unused

\* time passes
Tick ==
  /\ tsdb.ticks < MaxTicks
  /\ tsdb' = [tsdb EXCEPT !.ticks = @ + 1, !.clock = @ + tick_minutes]

\* the TTL index of the meta collection on expires (create_update_schema):
\* the database removes a document whose expires has passed by expiry_time
TtlExpire ==
  /\ tsdb.lock.has
  /\ tsdb.clock >= tsdb.lock.at + ttl_expiry_time
  /\ tsdb' = [tsdb EXCEPT !.lock = NoDoc, !.owner = 0]

\* compact_time_series() is called: now = utc()
Compact(p) ==
  /\ tsdb.procs[p].pc = "idle"
  /\ tsdb' = [tsdb EXCEPT !.procs[p] = [pc |-> "get", now |-> tsdb.clock, last_run |-> 0]]

\* last_run is read (one year ago when there is none); nothing to compact
\* when it is less than the smallest resolution ago
GetLastRun(p) ==
  LET me == tsdb.procs[p]
      last_run == IF tsdb.last_run.has THEN tsdb.last_run.at ELSE me.now - one_year
  IN /\ me.pc = "get"
     /\ tsdb' = IF me.now - last_run < smallest_resolution
                THEN [tsdb EXCEPT !.procs[p] = IdleProc]
                ELSE [tsdb EXCEPT !.procs[p].pc = "names", !.procs[p].last_run = last_run]

\* the names of the time series are read
GetNames(p) ==
  /\ tsdb.procs[p].pc = "names"
  /\ tsdb' = [tsdb EXCEPT !.procs[p].pc = "lock"]

\* db.insert of the lock document: it raises when the document exists (or
\* for any other reason), and the invocation returns
InsertLock(p) ==
  /\ tsdb.procs[p].pc = "lock"
  /\ \/ /\ ~tsdb.lock.has
        /\ tsdb' = [tsdb EXCEPT !.lock = Doc(tsdb.procs[p].now + lock_expires), !.owner = p,
                                !.procs[p].pc = "load"]
     \/ tsdb' = [tsdb EXCEPT !.procs[p] = IdleProc]

c_start(me) == Max2(me.now - bucket_end, me.last_run - bucket_start)

c_end(me) == me.now - bucket_start

\* the bucket of the time series: skipped by the safeguard, or its data
\* loaded; an exception leads to the finally
LoadTimeSeries(p) ==
  LET me == tsdb.procs[p] IN
  /\ me.pc = "load"
  /\ \/ tsdb' = [tsdb EXCEPT !.procs[p].pc =
                   IF c_end(me) <= c_start(me) \/ c_end(me) - c_start(me) < bucket_resolution
                   THEN "last_run" ELSE "tx"]
     \/ tsdb' = [tsdb EXCEPT !.procs[p].pc = "unlock"]

\* the transaction that replaces the entries of the window by the
\* compacted ones; upto is the end of what has been compacted
CompactWindow(p) ==
  LET me == tsdb.procs[p] IN
  /\ me.pc = "tx"
  /\ \/ tsdb' = [tsdb EXCEPT !.procs[p].pc = "last_run", !.upto = Max2(@, c_end(me))]
     \/ tsdb' = [tsdb EXCEPT !.procs[p].pc = "unlock"]

\* db.insert of last_run with overwrite
UpdateLastRun(p) ==
  /\ tsdb.procs[p].pc = "last_run"
  /\ \/ tsdb' = [tsdb EXCEPT !.procs[p].pc = "unlock", !.last_run = Doc(tsdb.procs[p].now)]
     \/ tsdb' = [tsdb EXCEPT !.procs[p].pc = "unlock"]

\* finally: db.delete of the lock document, whoever inserted it
DeleteLock(p) ==
  /\ tsdb.procs[p].pc = "unlock"
  /\ tsdb' = [tsdb EXCEPT !.procs[p] = IdleProc, !.lock = NoDoc, !.owner = 0]

compact_time_series(p) ==
  /\ \/ Compact(p)
     \/ GetLastRun(p)
     \/ GetNames(p)
     \/ InsertLock(p)
     \/ LoadTimeSeries(p)
     \/ CompactWindow(p)
     \/ UpdateLastRun(p)
     \/ DeleteLock(p)
  /\ UNCHANGED <<cliVars, reuse, parsed, web, watch>>

NextTsdb ==
  \/ Tick /\ UNCHANGED <<cliVars, reuse, parsed, web, watch>>
  \/ TtlExpire /\ UNCHANGED <<cliVars, reuse, parsed, web, watch>>
  \/ \E p \in Procs : compact_time_series(p)

SpecTsdb == InitTsdb /\ [][NextTsdb]_vars

(***************************************************************************)
(* What the properties below speak of.                                     *)
(***************************************************************************)
\* the run is over
Terminal == phase \in {"Completed", "Failed"}

\* the run ended while the pipeline was being resolved
ResolveFailed == phase = "Failed" /\ nres < Len(parts)

\* the run ended while the stream was pulled
RunFailed == phase = "Failed" /\ nres = Len(parts)

\* the elements `echo` yields
EchoInput == EchoSource_elements(parts[1].arg).elements

\* a resolved pipeline `echo <elements> | <one command>`, the sink implied
EchoInto(names) ==
  /\ Len(parts) = 2
  /\ nres = 2
  /\ parts[1].name = "echo"
  /\ parts[2].name \in names
  /\ EchoSource_elements(parts[1].arg).ok

\* the members of seq whose entry in log is k, in order
RECURSIVE Pick(_, _, _)
Pick(seq, log, k) ==
  IF seq = <<>> THEN <<>>
  ELSE IF Head(log) = k THEN <<Head(seq)>> \o Pick(Tail(seq), Tail(log), k)
  ELSE Pick(Tail(seq), Tail(log), k)

\* the members of a sequence of lists, list after list
RECURSIVE Concat(_)
Concat(lists) == IF lists = <<>> THEN <<>> ELSE Head(lists).l \o Concat(Tail(lists))

\* log never steps down
Ascending(log) == \A j \in 1..(Len(log) - 1) : log[j] <= log[j + 1]

\* the number of batches n elements make
Batches(n) == (n + buffer_size - 1) \div buffer_size

(***************************************************************************)
(* C1: when resolving a part of the pipeline fails, no element has been    *)
(* pulled from the source, no stage has run, and update_nodes_desired has  *)
(* not been called, also when a part resolved before is desire or          *)
(* mark_delete.                                                            *)
(***************************************************************************)
C1_ResolveFailureHasNoEffect ==
  ResolveFailed =>
    /\ npulled = 0
    /\ calls = <<>>
    /\ ~result.has
    /\ \A i \in 1..Len(ops) :
         /\ ops[i].op \in {"echo", "just", "query"} => ~ops[i].started
         /\ ops[i].op = "chunks" => ops[i].buf = <<>>
         /\ ops[i].op = "flatmap" => ops[i].nsub = 0
    /\ \A i \in 1..Len(graph) : graph[i] = SmallGraph[i]

C1_Witness ==
  /\ ResolveFailed
  /\ nres = 2
  /\ parts[2].name \in {"desire", "mark_delete"}
  /\ error \in {"UnknownCommandError", "ValueError", "ParseError", "CLIParseError"}

(***************************************************************************)
(* C2: a malformed argument of `echo` (a text that is not JSON, or no      *)
(* argument) is reported when `echo` is resolved: the part never counts as *)
(* resolved.                                                               *)
(***************************************************************************)
C2_EchoFailsAtResolve ==
  (parts[1].name = "echo" /\ ~JsonLoads(parts[1].arg).ok) => nres = 0

(***************************************************************************)
(* C3: a step of a Running pipeline in which a stage raises ends the run   *)
(* in Failed with that error and without a terminal value; a run that      *)
(* completes has seen no error; Completed and Failed are left by no step.  *)
(***************************************************************************)
C3_StageErrorFailsRun ==
  [][/\ (phase = "Running" /\ error' # "") => (phase' = "Failed" /\ ~result'.has)
     /\ phase' = "Completed" => (error' = "" /\ result'.has)
     /\ Terminal => UNCHANGED vars]_vars

C3_Witness ==
  /\ RunFailed
  /\ error # ""
  /\ ops[N].acc # <<>>
  /\ ~result.has

(***************************************************************************)
(* C4, as amended: in runs of `echo "<n characters>" | flatten | desire`   *)
(* every call of update_nodes_desired carries, in input order, the ids of  *)
(* one block of at most buffer_size consecutive input elements, no block   *)
(* is sent twice, and a run that completes has made one call per block.    *)
(***************************************************************************)
BatchInput == IterItems(JsonLoads(parts[1].arg).v)

BatchBlock(k) ==
  SubSeq(BatchInput, (k - 1) * buffer_size + 1,
         IF k * buffer_size < Len(BatchInput) THEN k * buffer_size ELSE Len(BatchInput))

SpecNodeId(x) == IF x.t = "str" THEN x ELSE MapGet(x.m, T_id)

HasSpecNodeId(x) == x.t = "str" \/ (x.t = "map" /\ MapHas(x.m, T_id))

C5_StringIsTheId ==
  ( /\ EchoInto({"desire", "mark_delete"})
    /\ Terminal
    /\ EchoInput # <<>>
    /\ \A j \in 1..Len(EchoInput) : HasSpecNodeId(EchoInput[j]) )
  => /\ Len(calls) = 1
     /\ calls[1].ids = [j \in 1..Len(EchoInput) |-> SpecNodeId(EchoInput[j])]

(***************************************************************************)
(* C6: a run of desire/mark_delete over an input with an element that is   *)
(* neither a String nor a Mapping with `_id` does not complete.            *)
(***************************************************************************)
C6_ElementWithoutIdFails ==
  ( /\ EchoInto({"desire", "mark_delete"})
    /\ \E j \in 1..Len(EchoInput) : ~HasSpecNodeId(EchoInput[j]) )
  => phase # "Completed"

(***************************************************************************)
(* C7: in a completed run of flatten, what was emitted for the k-th input  *)
(* element is its members when it is a Sequence, and the element itself    *)
(* when it is not.                                                         *)
(***************************************************************************)
SpecFlatten(x) == IF x.t = "list" THEN x.l ELSE <<x>>

C7_FlattenOneLevel ==
  (EchoInto({"flatten"}) /\ phase = "Completed")
  => \A k \in 1..Len(EchoInput) : Pick(result.v, ops[2].elog, k) = SpecFlatten(EchoInput[k])

(***************************************************************************)
(* C8: flatten never emits a member of a later input element before a      *)
(* member of an earlier one.                                               *)
(***************************************************************************)
C8_FlattenKeepsOrder ==
  \A i \in 1..Len(ops) :
    (ops[i].op = "flatmap" /\ ops[i].fn = "iterate") => Ascending(ops[i].elog)

(***************************************************************************)
(* C9: desire/mark_delete never emits a result of a later batch before a   *)
(* result of an earlier one.                                               *)
(***************************************************************************)
C9_ResultsInBatchOrder ==
  \A i \in 1..Len(ops) :
    (ops[i].op = "flatmap" /\ ops[i].fn = "set_desired") => Ascending(ops[i].elog)

(***************************************************************************)
(* C10: a run of `chunk num` with num >= 1 (100 when no num is given)      *)
(* completes; its chunks, one after the other, are the input; every chunk  *)
(* but the last holds num elements, the last holds 1 to num; an empty      *)
(* input gives no chunk.                                                   *)
(***************************************************************************)
ChunkNum == IF parts[2].arg = <<>> THEN default_chunk_size ELSE PyInt(parts[2].arg).v

C10_ChunkPartitionsInput ==
  (EchoInto({"chunk"}) /\ ChunkNum >= 1)
  => /\ phase # "Failed"
     /\ phase = "Completed" =>
          /\ \A j \in 1..Len(result.v) : result.v[j].t = "list"
          /\ Concat(result.v) = EchoInput
          /\ \A j \in 1..(Len(result.v) - 1) : Len(result.v[j].l) = ChunkNum
          /\ result.v # <<>> => Len(result.v[Len(result.v)].l) \in 1..ChunkNum
          /\ EchoInput = <<>> => result.v = <<>>

C10_Witness ==
  /\ EchoInto({"chunk"})
  /\ phase = "Completed"
  /\ ChunkNum = 2
  /\ Len(result.v) = 3
  /\ Len(result.v[3].l) = 1

\* a resolved pipeline `echo <elements> | names[1] | names[2] ...`, the
\* sink implied
EchoPipe(names) ==
  /\ Len(parts) = Len(names) + 1
  /\ nres = Len(parts)
  /\ parts[1].name = "echo"
  /\ \A i \in 1..Len(names) : parts[i + 1].name = names[i]
  /\ EchoSource_elements(parts[1].arg).ok

(***************************************************************************)
(* C11: `chunk` with a size of 0 or less is rejected when it is resolved:  *)
(* the part never counts as resolved.                                      *)
(***************************************************************************)
C11_ChunkNonPositiveFailsAtResolve ==
  ( /\ Len(parts) = 2
    /\ parts[2].name = "chunk"
    /\ PyInt(parts[2].arg).ok
    /\ PyInt(parts[2].arg).v <= 0 )
  => nres < 2

(***************************************************************************)
(* C12: a run of `count p` completes for every input, with matched the sum *)
(* of the integer values of p over the Mappings that hold a p that         *)
(* coerces, and not_matched the number of all other elements.              *)
(***************************************************************************)
SpecCounts(p, x) == x.t = "map" /\ MapHas(x.m, p) /\ PyIntOf(MapGet(x.m, p)).ok

RECURSIVE SpecMatched(_, _)
SpecMatched(p, xs) ==
  IF xs = <<>> THEN 0
  ELSE (IF SpecCounts(p, Head(xs)) THEN PyIntOf(MapGet(Head(xs).m, p)).v ELSE 0)
       + SpecMatched(p, Tail(xs))

SpecNotMatched(p, xs) == Cardinality({j \in 1..Len(xs) : ~SpecCounts(p, xs[j])})

CountResult(matched, not_matched) ==
  <<MapV(<<Item(T_matched, NumV(matched)), Item(T_not_matched, NumV(not_matched))>>)>>

C12_CountByProperty ==
  (EchoPipe(<<"count">>) /\ parts[2].arg # <<>> /\ Terminal)
  => /\ phase = "Completed"
     /\ result.v = CountResult(SpecMatched(parts[2].arg, EchoInput),
                               SpecNotMatched(parts[2].arg, EchoInput))

(***************************************************************************)
(* C13: a run of `count` without argument completes for every input; the   *)
(* sink gets nothing before the source has ended, and the result is the    *)
(* one Mapping {matched: <number of elements>, not_matched: 0}.            *)
(***************************************************************************)
C13_CountAll ==
  (EchoPipe(<<"count">>) /\ parts[2].arg = <<>>)
  => /\ phase # "Failed"
     /\ ops[N].acc # <<>> => ops[1].ended
     /\ phase = "Completed" => result.v = CountResult(Len(EchoInput), 0)

C13_Witness ==
  /\ EchoPipe(<<"count">>)
  /\ parts[2].arg = <<>>
  /\ phase = "Completed"
  /\ Len(EchoInput) = 2
  /\ result.v = CountResult(2, 0)

(***************************************************************************)
(* C14: a run of uniq over an input without Sequences completes with the   *)
(* first occurrence of every fingerprint, in input order: the fingerprint  *)
(* of a Mapping is its key-sorted serialization, that of any other element *)
(* is the element itself.                                                  *)
(***************************************************************************)
SpecFingerprint(x) ==
  IF x.t = "map" THEN [StrV(JsonDumps(x)) EXCEPT !.t = "fingerprint"] ELSE x

RECURSIVE SpecUniqFrom(_, _)
SpecUniqFrom(xs, seen) ==
  IF xs = <<>> THEN <<>>
  ELSE IF SpecFingerprint(Head(xs)) \in seen THEN SpecUniqFrom(Tail(xs), seen)
  ELSE <<Head(xs)>> \o SpecUniqFrom(Tail(xs), seen \cup {SpecFingerprint(Head(xs))})

SpecUniq(xs) == SpecUniqFrom(xs, {})

NoSequence(xs) == \A j \in 1..Len(xs) : xs[j].t # "list"

C14_UniqFirstOccurrences ==
  (EchoPipe(<<"uniq">>) /\ NoSequence(EchoInput) /\ Terminal)
  => /\ phase = "Completed"
     /\ result.v = SpecUniq(EchoInput)

(***************************************************************************)
(* C15: a run of uniq over an input with a Sequence never completes; it    *)
(* ends Failed with CLIParseError and without a result, no element after   *)
(* the first Sequence is pulled, and only elements before it have reached  *)
(* the sink.                                                               *)
(***************************************************************************)
FirstSequence(xs) ==
  CHOOSE j \in 1..Len(xs) : xs[j].t = "list" /\ \A k \in 1..(j - 1) : xs[k].t # "list"

C15_UniqSequenceFails ==
  (EchoPipe(<<"uniq">>) /\ ~NoSequence(EchoInput))
  => /\ phase # "Completed"
     /\ npulled <= FirstSequence(EchoInput)
     /\ Len(ops[N].acc) < FirstSequence(EchoInput)
     /\ Terminal => /\ error = "CLIParseError"
                    /\ ~result.has
                    /\ npulled = FirstSequence(EchoInput)

C15_Witness ==
  /\ EchoPipe(<<"uniq">>)
  /\ Len(EchoInput) = 2
  /\ EchoInput[1].t = "list"
  /\ phase = "Failed"
  /\ npulled = 1

(***************************************************************************)
(* C16: in a run of `uniq | uniq` the second uniq removes nothing: what    *)
(* reaches the sink is what the first uniq let through, and a completed    *)
(* run has the result of a single uniq.                                    *)
(***************************************************************************)
\* what one uniq lets through of xs, by has_not_seen
RECURSIVE UniqOnceFrom(_, _)
UniqOnceFrom(xs, visited) ==
  IF xs = <<>> THEN <<>>
  ELSE LET r == has_not_seen(Head(xs), visited) IN
       IF r.keep THEN <<Head(xs)>> \o UniqOnceFrom(Tail(xs), r.visited)
       ELSE UniqOnceFrom(Tail(xs), r.visited)

UniqOnce(xs) == UniqOnceFrom(xs, {})

C16_UniqIdempotent ==
  EchoPipe(<<"uniq", "uniq">>)
  => /\ Len(ops[4].acc) = Cardinality(ops[2].visited)
     /\ ops[3].visited = ops[2].visited
     /\ phase = "Failed" => ~NoSequence(EchoInput)
     /\ phase = "Completed" => result.v = UniqOnce(EchoInput)

C16_Witness ==
  /\ EchoPipe(<<"uniq", "uniq">>)
  /\ phase = "Completed"
  /\ Len(EchoInput) = 2
  /\ Len(result.v) = 1

(***************************************************************************)
(* C17: a run of `chunk n | flatten` with n >= 1 completes with exactly    *)
(* its input, in the original order.                                       *)
(***************************************************************************)
C17_FlattenReversesChunk ==
  (EchoPipe(<<"chunk", "flatten">>) /\ ChunkNum >= 1 /\ Terminal)
  => /\ phase = "Completed"
     /\ result.v = EchoInput

(***************************************************************************)
(* C18: without `graph` in the environment a match, desire or mark_delete  *)
(* part never resolves: resolving it fails with the KeyError of            *)
(* env["graph"], no query and no update of the store is set up or issued.  *)
(***************************************************************************)
NeedsGraph(i) == parts[i].name \in {"match", "desire", "mark_delete"}

C18_NoGraphFailsAtResolve ==
  ~MapHas(env, T_graph)
  => \A i \in 1..Len(parts) :
       NeedsGraph(i)
       => /\ nres < i
          /\ calls = <<>>
          /\ \A j \in 1..Len(ops) : ops[j].op \notin {"query", "flatmap"}
          /\ (Terminal /\ nres = i - 1) => (phase = "Failed" /\ error = "KeyError")

C18_Witness ==
  /\ ~MapHas(env, T_graph)
  /\ ResolveFailed
  /\ error = "KeyError"
  /\ nres = 1
  /\ NeedsGraph(2)

(***************************************************************************)
(* C19: a run of `echo <valid JSON>` alone completes with the elements of  *)
(* the array in order, or with the one value when the JSON is no array.    *)
(***************************************************************************)
SpecEcho(v) == IF v.t = "list" THEN v.l ELSE <<v>>

C19_EchoEmitsJson ==
  ( /\ parts[1].name = "echo"
    /\ Len(parts) = 1 \/ (Len(parts) = 2 /\ parts[2].name = "out")
    /\ JsonLoads(parts[1].arg).ok
    /\ Terminal )
  => /\ phase = "Completed"
     /\ result.v = SpecEcho(JsonLoads(parts[1].arg).v)

(***************************************************************************)
(* C20: a store update that succeeds changes, of the nodes named in the    *)
(* call, only the desired section: every key of the patch has the patch's  *)
(* value, every other key is as before and no key is added; the reported   *)
(* section of those nodes and all of every other node stay as they were.   *)
(***************************************************************************)
Keys(items) == {items[j].k : j \in 1..Len(items)}

MergedInto(before, after, patch) ==
  /\ Keys(after) = Keys(before) \cup Keys(patch)
  /\ \A k \in Keys(patch) : MapGet(after, k) = MapGet(patch, k)
  /\ \A k \in Keys(before) \ Keys(patch) : MapGet(after, k) = MapGet(before, k)

UpdateKeepsFrame(call) ==
  /\ Len(graph') = Len(graph)
  /\ \A i \in 1..Len(graph) :
       IF \E j \in 1..Len(call.ids) : call.ids[j] = StrV(graph[i].id)
       THEN /\ graph'[i].id = graph[i].id
            /\ graph'[i].reported = graph[i].reported
            /\ MergedInto(graph[i].desired, graph'[i].desired, call.patch)
       ELSE graph'[i] = graph[i]

C20_DesireMergesPatch ==
  [][(Len(calls') = Len(calls) + 1 /\ error' = "") => UpdateKeepsFrame(calls'[Len(calls')])]_vars

C20_Witness ==
  /\ phase = "Completed"
  /\ Len(calls) = 1
  /\ calls[1].ids = <<StrV(A_id1)>>
  /\ MapGet(graph[1].desired, <<"a">>) = StrV(<<"b">>)
  /\ MapGet(graph[1].desired, <<"n">>) = NumV(2)
  /\ MapGet(graph[1].desired, <<"o">>) = StrV(<<"x">>)
  /\ graph[3] = SmallGraph[3]

(***************************************************************************)
(* C21: applying the same desire patch a second time to the same nodes     *)
(* leaves the store as the first application left it: after every          *)
(* successful store call, the same call made again changes no node.        *)
(***************************************************************************)
AppliedAgain(g, call) == update_nodes_desired(g, call.patch, call.ids, call.secs).graph

C21_PatchIdempotent ==
  [][(Len(calls') = Len(calls) + 1 /\ error' = "")
       => AppliedAgain(graph', calls'[Len(calls')]) = graph']_vars

C21_Witness ==
  /\ phase = "Completed"
  /\ Len(calls) = 1
  /\ calls[1].ids = <<StrV(A_id1), StrV(A_id2)>>
  /\ graph[1].desired # SmallGraph[1].desired
  /\ graph[3].desired # <<>>
  /\ AppliedAgain(graph, calls[1]) = graph

(***************************************************************************)
(* C22: when update_nodes_desired fails for a batch, the error reaches the *)
(* caller and the run ends Failed without a result; the store is called at *)
(* most once for a batch, a failed call is not repeated, and no call       *)
(* follows a failure.                                                      *)
(***************************************************************************)
CalledBatches == {calls[c].batch : c \in 1..Len(calls)}

C22_StoreFailureFailsRun ==
  [][/\ Len(calls') > Len(calls)
          => /\ error = ""
             /\ Len(calls') = Len(calls) + 1
             /\ calls'[Len(calls')].batch \notin CalledBatches
     /\ error' = "StoreError" => (phase' = "Failed" /\ ~result'.has)]_vars

C22_Witness ==
  /\ phase = "Failed"
  /\ error = "StoreError"
  /\ ~result.has
  /\ Len(calls) = 2
  /\ graph # BatchGraph

(***************************************************************************)
(* C23: when a run of desire or mark_delete is cancelled, at whatever      *)
(* point, every batch is applied as a whole or not at all: the nodes named *)
(* by the ids of a batch either all carry the patch merged into their      *)
(* desired section or are all as they were before the run.                 *)
(***************************************************************************)
IsDesireRun ==
  /\ Len(parts) >= 2
  /\ parts[1].name = "echo"
  /\ parts[2].name \in {"desire", "mark_delete"}

RunPatch ==
  IF parts[2].name = "desire" THEN DesireCommand_patch(parts[2].arg).v
  ELSE MarkDeleteCommand_patch(parts[2].arg).v

DesireBatch(k) ==
  SubSeq(EchoInput, (k - 1) * buffer_size + 1,
         IF k * buffer_size < Len(EchoInput) THEN k * buffer_size ELSE Len(EchoInput))

BatchTargets(k) ==
  LET ids == set_desired_node_ids(DesireBatch(k)).ids
  IN {i \in 1..Len(graph) : \E j \in 1..Len(ids) : ids[j] = StrV(graph[i].id)}

PatchApplied(i) ==
  /\ graph[i].id = SmallGraph[i].id
  /\ graph[i].reported = SmallGraph[i].reported
  /\ graph[i].desired = MergeItems(SmallGraph[i].desired, RunPatch)

C23_CancelLeavesNoHalfBatch ==
  (error = "CancelledError" /\ IsDesireRun)
  => \A k \in 1..Batches(Len(EchoInput)) :
       \/ \A i \in BatchTargets(k) : PatchApplied(i)
       \/ \A i \in BatchTargets(k) : graph[i] = SmallGraph[i]

C23_Witness ==
  /\ error = "CancelledError"
  /\ phase = "Failed"
  /\ IsDesireRun
  /\ BatchTargets(1) = {1, 3}
  /\ Len(calls) = 1
  /\ PatchApplied(1) /\ PatchApplied(3)
  /\ \E i \in 1..Len(ops) :
       /\ ops[i].op = "flatmap"
       /\ \E k \in 1..Len(ops[i].subs) : ops[i].subs[k].called /\ Len(ops[i].subs[k].pend) = 1

(***************************************************************************)
(* C27: uniq drops no element that differs, as a Value, from every element *)
(* before it: in a completed run of uniq every input element whose         *)
(* fingerprint is not that of an earlier element is in the result.         *)
(***************************************************************************)
NewValue(xs, j) == \A k \in 1..(j - 1) : SpecFingerprint(xs[k]) # SpecFingerprint(xs[j])

C27_UniqKeepsNewValues ==
  (EchoPipe(<<"uniq">>) /\ phase = "Completed")
  => \A j \in 1..Len(EchoInput) :
       NewValue(EchoInput, j) => \E r \in 1..Len(result.v) : result.v[r] = EchoInput[j]

(***************************************************************************)
(* C24: the state of a stage belongs to one execution: two streams run     *)
(* through uniq, count or chunk with their pulls interleaved each end with *)
(* the result they have when run alone, whether the two executions         *)
(* resolved the stage each for itself or one resolved stage is applied to  *)
(* both streams.                                                           *)
(***************************************************************************)
RECURSIVE FeedAll(_, _)
FeedAll(o, xs) ==
  IF xs = <<>> THEN EndOf(o, 1)
  ELSE LET d == Feed(o, 1, Head(xs)) IN
       IF d.err # "" THEN d ELSE FeedAll(d.ops, Tail(xs))

RunAlone(stage, xs) ==
  LET d == FeedAll(Execution(1, ResolvedFlow(stage), xs).ops, xs)
      sink == d.ops[Len(d.ops)].acc
  IN IF d.err # "" THEN list_on_error(sink, d.err) ELSE list_on_end(sink)

C24_ExecutionsIndependent ==
  \A e \in 1..2 :
    reuse.ex[e].phase # "Running"
    => /\ reuse.ex[e].phase = RunAlone(reuse.stage, reuse.input[e]).phase
       /\ reuse.ex[e].result = RunAlone(reuse.stage, reuse.input[e]).result

(***************************************************************************)
(* C25: for a valid pipeline text whose unquoted `|` cut it into N         *)
(* segments the Parser yields N parts, part k from segment k: its name is  *)
(* the first blank-delimited token of the segment, its argument the        *)
(* trimmed rest, and there is no argument when the rest is empty. A `|`    *)
(* with an odd number of quotes before it is inside a quoted substring and *)
(* cuts nothing.                                                           *)
(***************************************************************************)
QuotesBefore(t, i) == Cardinality({j \in 1..(i - 1) : t[j] = "\""})

UnquotedPipes(t) == {i \in 1..Len(t) : t[i] = "|" /\ QuotesBefore(t, i) % 2 = 0}

Cuts(t) == {0} \cup UnquotedPipes(t) \cup {Len(t) + 1}

KthCut(t, k) == CHOOSE c \in Cuts(t) : Cardinality({d \in Cuts(t) : d < c}) = k

Segment(t, k) == Slice(t, KthCut(t, k - 1) + 1, KthCut(t, k) - 1)

NumSegments(t) == Cardinality(UnquotedPipes(t)) + 1

Blanks(n) == [i \in 1..n |-> " "]

ValidText(t) ==
  /\ t # <<>>
  /\ QuotesBefore(t, Len(t) + 1) % 2 = 0
  /\ \A k \in 1..NumSegments(t) : Strip(Segment(t, k)) # <<>>

PartOfSegment(part, seg) ==
  /\ part.name # <<>>
  /\ \A i \in 1..Len(part.name) : part.name[i] # " "
  /\ IF part.has_arg
     THEN /\ part.arg # <<>>
          /\ part.arg = Strip(part.arg)
          /\ \E n \in 1..Len(seg) : Strip(seg) = part.name \o Blanks(n) \o part.arg
     ELSE /\ part.arg = <<>>
          /\ Strip(seg) = part.name

C25_ParserSplitsOnUnquotedPipes ==
  (parsed.done /\ ValidText(parsed.text))
  => /\ parsed.out.ok
     /\ Len(parsed.out.parts) = NumSegments(parsed.text)
     /\ \A k \in 1..NumSegments(parsed.text) :
          PartOfSegment(parsed.out.parts[k], Segment(parsed.text, k))

C25_Witness ==
  /\ parsed.done
  /\ parsed.text = <<"a", " ", "\"", "|", "\"", "|", "a">>
  /\ parsed.out.ok
  /\ parsed.out.parts = <<PipelinePart(<<"a">>, <<"\"", "|", "\"">>), PipelinePart(<<"a">>, <<>>)>>

(***************************************************************************)
(* C26: behind the JWT check a request reaches the handler only if it has  *)
(* an Authorization header that carries, after the scheme Bearer, a JWT    *)
(* signed with the key of the server; the handler then sees the decoded    *)
(* claims, exp among them, and the answer is 200. A request without        *)
(* Authorization header or with a token signed with another key is         *)
(* answered 401 and the handler is not invoked.                            *)
(***************************************************************************)
AuthorizationHeaders ==
  {i \in 1..Len(web.headers) : LowerText(web.headers[i].k) = LowerText(T_Authorization)}

\* the token after `Bearer `, when the request has one
BearerToken ==
  LET v == web.headers[CHOOSE i \in AuthorizationHeaders : TRUE].v
  IN Slice(v, Len(T_Bearer) + 2, Len(v))

CarriesBearer ==
  /\ AuthorizationHeaders # {}
  /\ LET v == web.headers[CHOOSE i \in AuthorizationHeaders : TRUE].v
     IN /\ Len(v) > Len(T_Bearer) + 1
        /\ LowerText(Slice(v, 1, Len(T_Bearer) + 1)) = LowerText(T_Bearer) \o <<" ">>

SignedWith(enc, psk) == IsJwt(enc) /\ Issued(enc).sig.key.psk = psk

C26_OnlySignedBearerReachesHandler ==
  /\ (web.handled \/ web.stage = "authorized" \/ web.status = 200)
       => /\ CarriesBearer
          /\ SignedWith(BearerToken, ServerPsk)
          /\ web.context = Issued(BearerToken).payload
          /\ MapHas(web.context, "exp")
          /\ MapGet(web.context, "foo") = "bla"
  /\ web.status = 200 => (web.handled /\ web.seen = web.context)
  /\ (web.stage = "responded"
      /\ (AuthorizationHeaders = {} \/ (CarriesBearer /\ ~SignedWith(BearerToken, ServerPsk))))
       => (web.status = 401 /\ ~web.handled)

C26_Witness ==
  /\ web.stage = "responded"
  /\ web.status = 200
  /\ web.handled
  /\ web.headers = <<Item(T_Authorization, T_Bearer \o <<" ", "G">>)>>
  /\ MapGet(web.seen, "exp") = expire_in

(***************************************************************************)
(* C28: a watcher loop that is running when stop() is called eventually    *)
(* exits, whatever calls of watch_for_changes() follow, so that at most    *)
(* one loop keeps polling.                                                 *)
(***************************************************************************)
C28_StoppedWatcherExits ==
  \A t \in 1..MaxTasks :
    watch.tasks[t].stopped ~> (watch.tasks[t].pc = "done")

(***************************************************************************)
(* C29: of the invocations of compact_time_series that run at the same     *)
(* time at most one is in the section behind the insert of the lock        *)
(* document; an invocation whose insert fails changes nothing; the lock    *)
(* document is removed by the invocation that inserted it, when it leaves  *)
(* the section.                                                            *)
(***************************************************************************)
InSection(p) == tsdb.procs[p].pc \in {"load", "tx", "last_run", "unlock"}

C29_OneInvocationInSection ==
  [][/\ \A p, q \in Procs : (InSection(p)' /\ InSection(q)') => p = q
     /\ \A p \in Procs :
          (tsdb.procs[p].pc = "lock" /\ tsdb'.procs[p].pc = "idle")
            => (tsdb'.lock = tsdb.lock /\ tsdb'.last_run = tsdb.last_run
                /\ tsdb'.upto = tsdb.upto)
     /\ (tsdb.lock.has /\ ~tsdb'.lock.has)
          => \E p \in Procs : tsdb.owner = p /\ tsdb.procs[p].pc = "unlock"
                              /\ tsdb'.procs[p].pc = "idle"]_vars

(***************************************************************************)
(* C30: the stored last_run never moves backwards; an invocation that      *)
(* enters the section works with the last_run that is stored at that time, *)
(* and no window is compacted a second time.                               *)
(***************************************************************************)
StoredLastRun(now) == IF tsdb.last_run.has THEN tsdb.last_run.at ELSE now - one_year

C30_LastRunFreshAndForward ==
  [][/\ (tsdb.last_run.has /\ tsdb'.last_run # tsdb.last_run)
          => tsdb'.last_run.at >= tsdb.last_run.at
     /\ \A p \in Procs :
          /\ (tsdb.procs[p].pc = "lock" /\ tsdb'.procs[p].pc = "load")
               => tsdb.procs[p].last_run = StoredLastRun(tsdb.procs[p].now)
          /\ (tsdb.procs[p].pc = "tx" /\ tsdb'.procs[p].pc = "last_run")
               => c_start(tsdb.procs[p]) >= tsdb.upto]_vars

====
